---- MODULE Spec2Model ----
(***************************************************************************)
(* Copy-trading core of polymarket-copy-trading: the tracking ledger and   *)
(* the PostTrackingEngine, the bot position store, the open / close        *)
(* policies and the CopyTradingEngineService that the single trade         *)
(* consumer drives.                                                        *)
(*                                                                         *)
(* Share amounts (Decimal in the source) are integers in the model; an     *)
(* Optional[...] value x is the sequence <<>> (None) or <<x>>.             *)
(***************************************************************************)
EXTENDS Integers, Sequences, FiniteSets, TLC

\* ------------------------------------------------------------------ bounds
MaxSize == 2          \* largest trade size offered by the feed
MaxShares == 3        \* cap on post_tracking_shares of one ledger
MaxBaseline == 2      \* largest snapshot_t0_shares seeded before tracking
MaxPositions == 2     \* cap on the number of BotPositions ever created
MaxSec == 0           \* wall-clock seconds range over 0..MaxSec
MaxUsec == 1          \* wall-clock microseconds range over 0..MaxUsec

None == <<>>
Some(x) == <<x>>
IsNone(o) == o = <<>>
Val(o) == o[1]

Wallet == "w1"
Assets == {"a1", "a2"}
Sides == {"BUY", "SELL"}

\* str(asset).strip() on the asset strings of the feed: a blank asset is
\* left empty.
strip(raw) == IF raw = " " THEN "" ELSE IF raw = "h1 " THEN "h1" ELSE raw

\* ------------------------------------------------------ TrackingLedger
TrackingLedger_create(asset) ==
    [asset |-> strip(asset),
     snapshot_t0_shares |-> 0,
     post_tracking_shares |-> 0,
     close_stage_ref_post_tracking_shares |-> None]

with_snapshot_t0(l, new_snapshot) ==
    [l EXCEPT !.snapshot_t0_shares = new_snapshot]

with_post_tracking(l, new_post_tracking) ==
    [l EXCEPT !.post_tracking_shares = new_post_tracking]

with_close_stage_ref(l, new_ref) ==
    [l EXCEPT !.close_stage_ref_post_tracking_shares = new_ref]

\* mutant: the delta replaces the balance instead of being added to it
add_post_tracking_delta_set(l, delta) ==
    with_post_tracking(l, delta)

add_post_tracking_delta(l, delta) ==
    with_post_tracking(l, l.post_tracking_shares + delta)

\* ------------------------------------------------- tracking repository
\* A store maps every asset to None or Some(ledger).
tracking_get(store, asset) == store[asset]

tracking_save(store, l) == [store EXCEPT ![l.asset] = Some(l)]

\* get_or_create returns the ledger and the store it leaves behind.
tracking_get_or_create(store, asset) ==
    IF ~IsNone(store[asset])
    THEN [ledger |-> Val(store[asset]), store |-> store]
    ELSE LET l == TrackingLedger_create(asset)
         IN [ledger |-> l, store |-> [store EXCEPT ![asset] = Some(l)]]

repo_add_post_tracking_delta(store, asset, delta) ==
    LET g == tracking_get_or_create(store, asset)
        updated == add_post_tracking_delta(g.ledger, delta)
    IN [ledger |-> updated, store |-> tracking_save(g.store, updated)]

\* Raises ValueError when the ledger is missing: the store is then untouched.
update_close_stage_ref(store, asset, new_ref) ==
    IF IsNone(tracking_get(store, asset))
    THEN store
    ELSE tracking_save(store, with_close_stage_ref(Val(store[asset]), new_ref))

\* ------------------------------------------------- PostTrackingEngine
Max(a, b) == IF a >= b THEN a ELSE b
Min(a, b) == IF a <= b THEN a ELSE b

\* mutant: the snapshot is reduced by the excess without the clamp at 0
sell_into_snapshot_noclamp(ledger, new_pt) ==
    LET excess == -new_pt
        new_snapshot == ledger.snapshot_t0_shares - excess
    IN with_snapshot_t0(with_post_tracking(ledger, 0), new_snapshot)

\* The SELL branch for new_pt < 0: post_tracking to 0, snapshot reduced by
\* the excess and clamped at 0.
sell_into_snapshot(ledger, new_pt) ==
    LET excess == -new_pt
        new_snapshot == Max(0, ledger.snapshot_t0_shares - excess)
    IN with_snapshot_t0(with_post_tracking(ledger, 0), new_snapshot)

\* mutant: the size is subtracted from the snapshot, not from post_tracking
sell_new_pt_from_zero(post_tracking_shares, size_d) == 0 - size_d

\* SELL: what is left to take from the snapshot once post_tracking is used up
\* (new_pt = post_tracking_shares - size_d; the excess is -new_pt)
sell_new_pt(post_tracking_shares, size_d) == post_tracking_shares - size_d

\* mutant: a size of 0 passes the check
size_invalid_negative_only(size_raw) ==
    IsNone(size_raw) \/ Val(size_raw) < 0

\* size_raw is None or size_raw <= 0
size_invalid(size_raw) ==
    IsNone(size_raw) \/ Val(size_raw) <= 0

\* apply_trade(wallet, trade): ret is the returned ledger (None when the
\* trade is skipped), before is the ledger get_or_create handed back, store
\* is the ledger store afterwards.
apply_trade(store, trade) ==
    LET asset == strip(trade.asset)
        side == trade.side
        skip == [ret |-> None, before |-> None, store |-> store]
    IN IF asset = "" \/ side \notin Sides THEN skip
       ELSE IF size_invalid(trade.size) THEN skip
       ELSE LET size_d == Val(trade.size)
                g == tracking_get_or_create(store, asset)
            IN IF side = "BUY"
               THEN LET u == repo_add_post_tracking_delta(g.store, asset, size_d)
                    IN [ret |-> Some(u.ledger), before |-> Some(g.ledger),
                        store |-> u.store]
               ELSE LET ledger == g.ledger
                        new_pt == sell_new_pt(ledger.post_tracking_shares, size_d)
                        updated == IF new_pt >= 0
                                   THEN with_post_tracking(ledger, new_pt)
                                   ELSE sell_into_snapshot(ledger, new_pt)
                    IN [ret |-> Some(updated), before |-> Some(ledger),
                        store |-> tracking_save(g.store, updated)]

\* ----------------------------------------------------------- wall clock
\* datetime.now(timezone.utc) is read from the environment: a time is
\* <<seconds, microseconds>>.
Times == (0..MaxSec) \X (0..MaxUsec)
\* The clock reads of _handle_sell (closed_at) are taken at the latest time.
CloseTimes == {<<MaxSec, MaxUsec>>}

\* datetime.isoformat() of an aware UTC datetime, as character codes: the
\* seconds zero-padded to two digits, the fraction only when microsecond is
\* not 0, then the offset ("+").
isoformat(t) ==
    <<48 + (t[1] \div 10), 48 + (t[1] % 10)>>
        \o (IF t[2] = 0 THEN <<>> ELSE <<46, 48 + t[2]>>)
        \o <<43>>

\* Python's str comparison a <= b on character codes.
RECURSIVE str_le(_, _)
str_le(a, b) ==
    IF a = <<>> THEN TRUE
    ELSE IF b = <<>> THEN FALSE
    ELSE IF Head(a) # Head(b) THEN Head(a) < Head(b)
    ELSE str_le(Tail(a), Tail(b))

\* ---------------------------------------------------------- BotPosition
OPEN == "OPEN"
CLOSING_PENDING == "CLOSING_PENDING"
CLOSED == "CLOSED"

BotPosition_create(id, ledger_id, asset, shares_held, entry_price, entry_cost_usdc, opened_at) ==
    [id |-> id,
     ledger_id |-> ledger_id,
     tracked_wallet |-> Wallet,
     asset |-> strip(asset),
     shares_held |-> shares_held,
     entry_price |-> entry_price,
     status |-> OPEN,
     opened_at |-> opened_at,
     closed_at |-> None,
     entry_cost_usdc |-> entry_cost_usdc,
     close_proceeds_usdc |-> None,
     fees |-> 0,
     close_order_id |-> None,
     close_transaction_hash |-> None,
     close_requested_at |-> None,
     close_attempts |-> 0]

is_open(p) == p.status = OPEN
is_closing_pending(p) == p.status = CLOSING_PENDING

\* x or y for Optional values
Or(x, y) == IF IsNone(x) THEN y ELSE x

with_close_proceeds_updated(p, close_proceeds_usdc, close_fees) ==
    [p EXCEPT !.close_proceeds_usdc = Some(close_proceeds_usdc),
              !.fees = p.fees + close_fees]

\* mutant: the close order id and hash recorded first are kept
with_closing_pending_keeps_first(p, close_order_id, close_transaction_hash, close_requested_at) ==
    [p EXCEPT !.status = CLOSING_PENDING,
              !.closed_at = None,
              !.close_order_id = Or(p.close_order_id, close_order_id),
              !.close_transaction_hash =
                  Or(p.close_transaction_hash, close_transaction_hash),
              !.close_requested_at = Some(close_requested_at),
              !.close_attempts = p.close_attempts + 1]

with_closing_pending(p, close_order_id, close_transaction_hash, close_requested_at) ==
    [p EXCEPT !.status = CLOSING_PENDING,
              !.closed_at = None,
              !.close_order_id = Or(close_order_id, p.close_order_id),
              !.close_transaction_hash =
                  Or(close_transaction_hash, p.close_transaction_hash),
              !.close_requested_at = Some(close_requested_at),
              !.close_attempts = p.close_attempts + 1]

with_closed(p, closed_at, close_proceeds_usdc, close_fees, close_order_id, close_transaction_hash) ==
    [p EXCEPT !.status = CLOSED,
              !.closed_at = Some(closed_at),
              !.close_proceeds_usdc =
                  Or(close_proceeds_usdc, p.close_proceeds_usdc),
              !.fees = p.fees + (IF IsNone(close_fees) THEN 0
                                 ELSE Val(close_fees)),
              !.close_order_id = Or(close_order_id, p.close_order_id),
              !.close_transaction_hash =
                  Or(close_transaction_hash, p.close_transaction_hash)]

\* mutant: the status is not looked at
realized_pnl_usdc_any_status(p) ==
    IF IsNone(p.entry_cost_usdc) \/ IsNone(p.close_proceeds_usdc) THEN None
    ELSE Some(Val(p.close_proceeds_usdc) - Val(p.entry_cost_usdc))

\* BotPosition.realized_pnl_usdc
realized_pnl_usdc(p) ==
    IF p.status # CLOSED THEN None
    ELSE IF IsNone(p.entry_cost_usdc) \/ IsNone(p.close_proceeds_usdc) THEN None
    ELSE Some(Val(p.close_proceeds_usdc) - Val(p.entry_cost_usdc))

\* BotPosition.net_pnl_usdc
net_pnl_usdc(p) ==
    IF IsNone(realized_pnl_usdc(p)) THEN None
    ELSE Some(Val(realized_pnl_usdc(p)) - p.fees)

\* PnLService.compute
PnLService_compute(position) ==
    [realized_pnl_usdc |-> realized_pnl_usdc(position),
     net_pnl_usdc |-> net_pnl_usdc(position),
     entry_cost_usdc |-> position.entry_cost_usdc,
     close_proceeds_usdc |-> position.close_proceeds_usdc,
     total_fees_usdc |-> position.fees]

\* ---------------------------------------------- bot position repository
\* The store is the sequence of positions in insertion order (the dict of
\* the in-memory repository); a position's id is its index.
position_get(ps, position_id) ==
    IF position_id \in DOMAIN ps THEN Some(ps[position_id]) ELSE None

position_save(ps, p) ==
    IF p.id \in DOMAIN ps THEN [ps EXCEPT ![p.id] = p] ELSE Append(ps, p)

by_opened_at(p) == isoformat(p.opened_at)

\* sorted(..., key=...): a stable sort, here by insertion.
RECURSIVE sorted_insert(_, _)
sorted_insert(sorted, p) ==
    IF sorted = <<>> THEN <<p>>
    ELSE IF str_le(by_opened_at(Head(sorted)), by_opened_at(p))
         THEN <<Head(sorted)>> \o sorted_insert(Tail(sorted), p)
         ELSE <<p>> \o sorted

RECURSIVE sorted_by_opened_at(_)
sorted_by_opened_at(seq) ==
    IF seq = <<>> THEN <<>>
    ELSE sorted_insert(sorted_by_opened_at(SubSeq(seq, 1, Len(seq) - 1)),
                       seq[Len(seq)])

list_open_by_wallet(ps, tracked_wallet) ==
    sorted_by_opened_at(
        SelectSeq(ps, LAMBDA p : p.tracked_wallet = tracked_wallet /\ is_open(p)))

\* mutant: the open positions come back in store order, unsorted
list_open_by_ledger_unsorted(ps, ledger_id) ==
    SelectSeq(ps, LAMBDA p : p.ledger_id = ledger_id /\ is_open(p))

list_open_by_ledger(ps, ledger_id) ==
    sorted_by_opened_at(
        SelectSeq(ps, LAMBDA p : p.ledger_id = ledger_id /\ is_open(p)))

\* Each operation returns the value handed back (ret) and the store left.
mark_closing_pending(ps, position_id, close_order_id, close_transaction_hash, close_requested_at) ==
    LET position == position_get(ps, position_id)
    IN IF IsNone(position) THEN [ret |-> None, store |-> ps]
       ELSE IF ~is_open(Val(position)) /\ ~is_closing_pending(Val(position))
       THEN [ret |-> position, store |-> ps]
       ELSE LET updated == with_closing_pending(Val(position), close_order_id,
                               close_transaction_hash, close_requested_at)
            IN [ret |-> Some(updated), store |-> position_save(ps, updated)]

\* mutant: an OPEN position is handed back as if it had been updated
confirm_closed_open_returns(ps, position_id, closed_at, close_proceeds_usdc, close_fees, close_order_id, close_transaction_hash) ==
    LET position == position_get(ps, position_id)
    IN IF IsNone(position) THEN [ret |-> None, store |-> ps]
       ELSE IF ~is_closing_pending(Val(position))
       THEN [ret |-> position, store |-> ps]
       ELSE LET updated == with_closed(Val(position), closed_at,
                               close_proceeds_usdc, close_fees, close_order_id,
                               close_transaction_hash)
            IN [ret |-> Some(updated), store |-> position_save(ps, updated)]

\* mutant: an OPEN position is not refused
confirm_closed_from_open(ps, position_id, closed_at, close_proceeds_usdc, close_fees, close_order_id, close_transaction_hash) ==
    LET position == position_get(ps, position_id)
    IN IF IsNone(position) THEN [ret |-> None, store |-> ps]
       ELSE IF Val(position).status = CLOSED
       THEN [ret |-> position, store |-> ps]
       ELSE LET updated == with_closed(Val(position), closed_at,
                               close_proceeds_usdc, close_fees, close_order_id,
                               close_transaction_hash)
            IN [ret |-> Some(updated), store |-> position_save(ps, updated)]

confirm_closed(ps, position_id, closed_at, close_proceeds_usdc, close_fees, close_order_id, close_transaction_hash) ==
    LET position == position_get(ps, position_id)
    IN IF IsNone(position) THEN [ret |-> None, store |-> ps]
       ELSE IF is_open(Val(position)) THEN [ret |-> None, store |-> ps]
       ELSE IF ~is_closing_pending(Val(position))
       THEN [ret |-> position, store |-> ps]
       ELSE LET updated == with_closed(Val(position), closed_at,
                               close_proceeds_usdc, close_fees, close_order_id,
                               close_transaction_hash)
            IN [ret |-> Some(updated), store |-> position_save(ps, updated)]

update_closed_pnl(ps, position_id, close_proceeds_usdc, close_fees) ==
    LET position == position_get(ps, position_id)
    IN IF IsNone(position) THEN [ret |-> None, store |-> ps]
       ELSE IF is_open(Val(position)) THEN [ret |-> None, store |-> ps]
       ELSE LET updated == with_close_proceeds_updated(Val(position),
                               close_proceeds_usdc, close_fees)
            IN [ret |-> Some(updated), store |-> position_save(ps, updated)]

\* mutant: the position is marked after the events of the loop were sent
mark_closed_deferred(ps, position_id, closed_at) ==
    [ret |-> position_get(ps, position_id), store |-> ps]

\* IBotPositionRepository.mark_closed, the call _handle_sell makes: an OPEN
\* position goes to CLOSED with closed_at; anything else is handed back as is.
mark_closed(ps, position_id, closed_at) ==
    LET position == position_get(ps, position_id)
    IN IF IsNone(position) THEN [ret |-> None, store |-> ps]
       ELSE IF ~is_open(Val(position)) THEN [ret |-> position, store |-> ps]
       ELSE LET updated == with_closed(Val(position), closed_at, None, None,
                                       None, None)
            IN [ret |-> Some(updated), store |-> position_save(ps, updated)]

\* ------------------------------------------------------------- policies
\* mutant: the limit itself is still let through
max_positions_per_ledger_reached_gt(inp, st) ==
    inp.open_positions_count > st.max_positions_per_ledger

\* gate 1 of should_open
max_positions_per_ledger_reached(inp, st) ==
    inp.open_positions_count >= st.max_positions_per_ledger

\* mutant: the limit itself is still let through
max_active_ledgers_reached_gt(inp, st) ==
    inp.open_positions_count = 0
        /\ inp.active_ledgers_count > st.max_active_ledgers

\* gate 2 of should_open
max_active_ledgers_reached(inp, st) ==
    inp.open_positions_count = 0
        /\ inp.active_ledgers_count >= st.max_active_ledgers

\* mutant: the percent threshold is not scaled by open_positions_count + 1
should_open_percent_unscaled(inp, st) ==
    IF max_positions_per_ledger_reached(inp, st)
    THEN [should_open |-> FALSE, reason |-> "max_positions_per_ledger"]
    ELSE IF max_active_ledgers_reached(inp, st)
    THEN [should_open |-> FALSE, reason |-> "max_active_ledgers"]
    ELSE IF inp.post_tracking_shares <= 0
    THEN [should_open |-> FALSE, reason |-> "nothing_to_copy"]
    ELSE LET shares_ok ==
                 inp.post_tracking_shares >= st.asset_min_position_shares
             percent_ok ==
                 /\ st.asset_min_position_percent > 0
                 /\ inp.account_total_value_usdc > 0
                 /\ inp.post_tracking_value_usdc * 100
                        >= st.asset_min_position_percent
                               * inp.account_total_value_usdc
         IN IF shares_ok THEN [should_open |-> TRUE, reason |-> "shares"]
            ELSE IF percent_ok THEN [should_open |-> TRUE, reason |-> "percent"]
            ELSE [should_open |-> FALSE, reason |-> "thresholds_not_met"]

\* OpenPolicy.should_open.  inp: post_tracking_shares (of inp.ledger),
\* open_positions_count, active_ledgers_count, account_total_value_usdc,
\* post_tracking_value_usdc.  The percent comparison
\*   post_tracking_value / account_total_value
\*       >= (open_positions_count + 1) * asset_min_position_percent / 100
\* is cross-multiplied (account_total_value > 0 there).
should_open(inp, st) ==
    IF max_positions_per_ledger_reached(inp, st)
    THEN [should_open |-> FALSE, reason |-> "max_positions_per_ledger"]
    ELSE IF max_active_ledgers_reached(inp, st)
    THEN [should_open |-> FALSE, reason |-> "max_active_ledgers"]
    ELSE IF inp.post_tracking_shares <= 0
    THEN [should_open |-> FALSE, reason |-> "nothing_to_copy"]
    ELSE LET shares_ok ==
                 inp.post_tracking_shares >= st.asset_min_position_shares
             percent_ok ==
                 /\ st.asset_min_position_percent > 0
                 /\ inp.account_total_value_usdc > 0
                 /\ inp.post_tracking_value_usdc * 100
                        >= (inp.open_positions_count + 1)
                               * st.asset_min_position_percent
                               * inp.account_total_value_usdc
         IN IF shares_ok THEN [should_open |-> TRUE, reason |-> "shares"]
            ELSE IF percent_ok THEN [should_open |-> TRUE, reason |-> "percent"]
            ELSE [should_open |-> FALSE, reason |-> "thresholds_not_met"]

\* ------------------------------------------------ strategy settings
\* StrategySettings values the model is run with (fixed at start-up).
FixedPositionAmountUsdc == 2
AllStrategySettings ==
    [fixed_position_amount_usdc : {FixedPositionAmountUsdc},
     max_positions_per_ledger : {1, 2},
     max_active_ledgers : {1, 2},
     asset_min_position_percent : {0, 50},
     asset_min_position_shares : {0, 2},
     close_total_threshold_pct : {0, 80, 100}]
\* Every pair of capacity limits with the default thresholds (shares 0,
\* percent disabled, close threshold 80), and the other thresholds with
\* the widest limits.
StrategySettings ==
    {st \in AllStrategySettings :
        \/ /\ st.asset_min_position_percent = 0
           /\ st.asset_min_position_shares = 0
           /\ st.close_total_threshold_pct = 80
        \/ /\ st.max_positions_per_ledger = 2
           /\ st.max_active_ledgers = 2
           /\ st.asset_min_position_percent = 50
           /\ st.asset_min_position_shares = 2
           /\ st.close_total_threshold_pct = 100
        \/ /\ st.max_positions_per_ledger = 2
           /\ st.max_active_ledgers = 2
           /\ st.asset_min_position_percent = 0
           /\ st.asset_min_position_shares = 0
           /\ st.close_total_threshold_pct = 0}

MaxOpenCount == 6     \* largest max_positions_per_ledger the policies are run with
MaxRef == 6           \* largest close stage reference handed to the close policy

\* ------------------------------------------- float arithmetic (binary64)
\* ClosePolicy computes in Python floats.  A float is [m, e] with value
\* m * 2^e; m is 0 or a 53-bit mantissa kept as <<hi, lo>> = hi * 2^27 + lo.
Limb == 134217728
FloatZero == [m |-> <<0, 0>>, e |-> 0]

nat_of(n) == <<n \div Limb, n % Limb>>
nat_dbl(x) == <<2 * x[1] + ((2 * x[2]) \div Limb), (2 * x[2]) % Limb>>
nat_inc(x) == IF x[2] + 1 = Limb THEN <<x[1] + 1, 0>> ELSE <<x[1], x[2] + 1>>
nat_ge(x, y) == x[1] > y[1] \/ (x[1] = y[1] /\ x[2] >= y[2])
nat_sub(x, y) ==
    IF x[2] >= y[2] THEN <<x[1] - y[1], x[2] - y[2]>>
    ELSE <<x[1] - y[1] - 1, x[2] + Limb - y[2]>>

\* One step of the long division of rem / den (rem < den): the next
\* quotient bit is appended to the mantissa m.
quotient_step(s, den) ==
    LET r2 == nat_dbl(s.rem)
    IN IF nat_ge(r2, den)
       THEN [m |-> nat_inc(nat_dbl(s.m)), rem |-> nat_sub(r2, den), bits |-> s.bits - 1]
       ELSE [m |-> nat_dbl(s.m), rem |-> r2, bits |-> s.bits - 1]

\* The remaining s.bits steps of the division.
RECURSIVE quotient_bits(_, _)
quotient_bits(s, den) ==
    IF s.bits = 0 THEN s ELSE quotient_bits(quotient_step(s, den), den)

\* Round to nearest, ties to even: whether the 53-bit quotient q of a
\* division by den is rounded up.
round_up(q, den) ==
    LET r2 == nat_dbl(q.rem)
    IN IF r2 = den THEN q.m[2] % 2 = 1 ELSE nat_ge(r2, den)

\* The float of mantissa m (53 bits, or 2^53 after a carry) and unit
\* exponent e.
normalise(m, e) ==
    IF m = <<Limb \div 2, 0>> THEN [m |-> <<Limb \div 4, 0>>, e |-> e - 51]
    ELSE [m |-> m, e |-> e - 52]

round_mantissa(q, den, e) ==
    normalise(IF round_up(q, den) THEN nat_inc(q.m) ELSE q.m, e)

\* num / den for den <= num < 2 * den, rounded to 53 bits, ties to even;
\* e is the exponent of the quotient's unit bit.
round_quotient(num, den, e) ==
    round_mantissa(
        quotient_bits([m |-> <<0, 1>>, rem |-> nat_sub(num, den), bits |-> 52], den),
        den, e)

\* float(a) / float(b) for ints a >= 0, b > 0: the float nearest to a / b.
\* float(Decimal quotient) gives the same float: the 28-digit Decimal lies
\* closer to a / b than any rounding boundary between floats does.
RECURSIVE float_of_ratio_scaled(_, _, _)
float_of_ratio_scaled(a, b, e) ==
    IF a < b THEN float_of_ratio_scaled(2 * a, b, e - 1)
    ELSE IF a >= 2 * b THEN float_of_ratio_scaled(a, 2 * b, e + 1)
    ELSE round_quotient(nat_of(a), nat_of(b), e)

float_of_ratio(a, b) ==
    IF a = 0 THEN FloatZero ELSE float_of_ratio_scaled(a, b, 0)

\* x / y on floats (x > 0, y > 0)
float_truediv(x, y) ==
    round_quotient(IF nat_ge(x.m, y.m) THEN x.m ELSE nat_dbl(x.m), y.m,
                   IF nat_ge(x.m, y.m) THEN x.e - y.e ELSE x.e - y.e - 1)

\* int(math.floor(x)) for a float x >= 0
math_floor(x) ==
    IF x.m = <<0, 0>> \/ x.e < -52 THEN 0
    ELSE IF x.e <= -27 THEN x.m[1] \div (2 ^ (-x.e - 27))
    ELSE IF x.e <= 0 THEN x.m[1] * (2 ^ (27 + x.e)) + (x.m[2] \div (2 ^ (-x.e)))
    ELSE (x.m[1] * Limb + x.m[2]) * (2 ^ x.e)

\* The floats ClosePolicy works with, each computed once: stage_pct_closed
\* for every reference and post_tracking_shares below it, per_position for
\* every threshold and count, and the floor of their quotient (f @@ <<>>
\* is f, held as a table).
StageRefs == 1..Max(MaxRef, MaxShares)
StageCounts == 1..Max(MaxOpenCount, MaxPositions)
CloseThresholds == {st.close_total_threshold_pct : st \in AllStrategySettings}
StagePairs == {y \in StageRefs \X (0..Max(MaxRef, MaxShares)) : y[2] < y[1]}
PerPositionPairs == CloseThresholds \X StageCounts
stage_pct_closed_of ==
    [x \in StagePairs |-> float_of_ratio((x[1] - x[2]) * 100, x[1])] @@ <<>>
per_position_of ==
    [x \in PerPositionPairs |-> float_of_ratio(x[1], x[2])] @@ <<>>
\* int(math.floor(stage_pct_closed / per_position)), for per_position > 0
floor_quotient(stage_pct_closed, per_position) ==
    IF per_position = FloatZero THEN 0
    ELSE math_floor(float_truediv(stage_pct_closed, per_position))
floor_of_quotient ==
    [x \in StagePairs \X PerPositionPairs |->
        floor_quotient(stage_pct_closed_of[x[1]], per_position_of[x[2]])] @@ <<>>

\* mutant: a quotient above the count closes nothing
clamp_positions_to_close_drop(n, open_positions_count) ==
    IF n > open_positions_count THEN 0 ELSE Max(0, n)

\* n = max(0, min(n, inp.open_positions_count))
clamp_positions_to_close(n, open_positions_count) ==
    Max(0, Min(n, open_positions_count))

\* ClosePolicy.positions_to_close, with stage_pct_closed =
\* float((ref_pt - pt_actual) / ref_pt * 100) and per_position =
\* close_total_threshold_pct / open_positions_count as floats.
positions_to_close(ledger, open_positions_count, st) ==
    LET ref_pt == ledger.close_stage_ref_post_tracking_shares
        pt_actual == ledger.post_tracking_shares
    IN IF open_positions_count <= 0
       THEN [positions_to_close |-> 0, reason |-> "no_open_positions"]
       ELSE IF IsNone(ref_pt)
       THEN [positions_to_close |-> 0, reason |-> "ref_pt_not_set"]
       ELSE IF Val(ref_pt) <= 0
       THEN [positions_to_close |-> 0, reason |-> "ref_pt_not_set"]
       ELSE IF pt_actual >= Val(ref_pt)
       THEN [positions_to_close |-> 0, reason |-> "no_stage_progress"]
       ELSE LET stage == <<Val(ref_pt), pt_actual>>
                per == <<st.close_total_threshold_pct, open_positions_count>>
            IN IF per_position_of[per] = FloatZero
            THEN [positions_to_close |-> 0, reason |-> "per_position_invalid"]
            ELSE
            LET floor_n == floor_of_quotient[<<stage, per>>]
                n == clamp_positions_to_close(floor_n, open_positions_count)
            IN IF n = 0
               THEN [positions_to_close |-> 0, reason |-> "below_per_position"]
               ELSE [positions_to_close |-> n, reason |-> "close"]

\* ------------------------------------------------ collaborators' answers
OrderIds == {"o1"}
TxHashes == {"tx1"}
\* OrderExecutionResult: success, response.order_id and the first of
\* response.transactions_hashes (both None when there is no response).
ExecResults ==
    {[success |-> ok, order_id |-> None, transaction_hash |-> None] : ok \in BOOLEAN}
    \cup [success : BOOLEAN, order_id : {Some(o) : o \in OrderIds},
          transaction_hash : {Some(h) : h \in TxHashes}]
\* get_total_account_value (0 also stands for the failed lookup)
AccountValues == {0, 4}
\* curPrice of the wallet's position in the asset (None: no usable price)
CurPrices == {None, Some(1)}
\* trade.price of a BUY of the feed: a1 trades at 2, a2 comes unpriced
price_of(asset) == IF asset = "a1" THEN Some(2) ELSE None

\* ------------------------------------------------------------- events
CopyTradeOrderPlacedEvent(order_id, position_id, asset, is_open_, amount, success, transaction_hash) ==
    [type |-> "order_placed", reason |-> "", order_id |-> order_id,
     position_id |-> Some(position_id), asset |-> asset, is_open |-> is_open_,
     amount |-> amount, success |-> success,
     transaction_hash |-> transaction_hash]

CopyTradeFailedEvent(reason, position_id, order_id, asset, is_open_, amount, transaction_hash) ==
    [type |-> "failed", reason |-> reason, order_id |-> order_id,
     position_id |-> position_id, asset |-> asset, is_open |-> is_open_,
     amount |-> amount, success |-> FALSE,
     transaction_hash |-> transaction_hash]

\* _emit_order_placed: nothing is dispatched without an order id.
emit_order_placed(events, order_id, position_id, asset, is_open_, amount, success, transaction_hash) ==
    IF IsNone(order_id) THEN events
    ELSE Append(events, CopyTradeOrderPlacedEvent(Val(order_id), position_id,
                            asset, is_open_, amount, success, transaction_hash))

\* mutant: nothing is dispatched
emit_order_failed_silent(events, reason, position_id, order_id, asset, is_open_, amount, transaction_hash) ==
    events

\* _emit_order_failed: order_id or "".
emit_order_failed(events, reason, position_id, order_id, asset, is_open_, amount, transaction_hash) ==
    Append(events, CopyTradeFailedEvent(reason, position_id,
                       IF IsNone(order_id) THEN "" ELSE Val(order_id),
                       asset, is_open_, amount, transaction_hash))

\* --------------------------------------------- CopyTradingEngineService
RECURSIVE seq_range(_)
seq_range(seq) ==
    IF seq = <<>> THEN {} ELSE {Head(seq)} \cup seq_range(Tail(seq))

ids_of(seq) == [i \in 1..Len(seq) |-> seq[i].id]

count_active_ledgers(ps, wallet) ==
    Cardinality({p.ledger_id : p \in seq_range(list_open_by_wallet(ps, wallet))})

get_post_tracking_value_usdc(post_tracking_shares, cur_price) ==
    IF post_tracking_shares <= 0 THEN 0
    ELSE IF IsNone(cur_price) THEN 0
    ELSE IF Val(cur_price) > 0 THEN post_tracking_shares * Val(cur_price)
    ELSE 0

\* What one evaluate_and_execute did, kept for the properties; submitted
\* holds the results of the orders it placed, in order.
NoOutcome ==
    [op |-> "none", asset |-> "", open_positions |-> <<>>, active_ledgers_count |-> 0,
     approved |-> FALSE, reason |-> "", n |-> 0, to_close |-> <<>>,
     created |-> None, events |-> <<>>, submitted |-> <<>>,
     dispatched |-> <<>>]

\* mutant: the reference is overwritten on every opened position
init_close_stage_ref_always(store, ledger, asset) ==
    update_close_stage_ref(store, asset, Some(ledger.post_tracking_shares))

\* _handle_buy, after the position is saved: the close stage reference is
\* set to the current post_tracking_shares only when it is None.
init_close_stage_ref(store, ledger, asset) ==
    IF IsNone(ledger.close_stage_ref_post_tracking_shares)
    THEN update_close_stage_ref(store, asset, Some(ledger.post_tracking_shares))
    ELSE store

\* What the store holds for a position id at the moment an order-placed
\* event is dispatched: its status, or "missing".
status_at(ps, position_id) ==
    IF IsNone(position_get(ps, position_id)) THEN "missing"
    ELSE Val(position_get(ps, position_id)).status

\* _handle_buy.  env: account_total_value_usdc, cur_price, exec (the result
\* of place_buy_usdc), now (the clock read of BotPosition.create).
handle_buy(store, ps, st, trade, ledger, asset, env) ==
    LET open_positions == list_open_by_ledger(ps, ledger.asset)
        open_positions_count == Len(open_positions)
        active_ledgers_count == count_active_ledgers(ps, Wallet)
        inp == [post_tracking_shares |-> ledger.post_tracking_shares,
                open_positions_count |-> open_positions_count,
                active_ledgers_count |-> active_ledgers_count,
                account_total_value_usdc |-> env.account_total_value_usdc,
                post_tracking_value_usdc |->
                    get_post_tracking_value_usdc(ledger.post_tracking_shares,
                                                 env.cur_price)]
        result == should_open(inp, st)
        out == [NoOutcome EXCEPT !.op = "buy",
                                 !.asset = asset,
                                 !.open_positions = ids_of(open_positions),
                                 !.active_ledgers_count = active_ledgers_count,
                                 !.approved = result.should_open,
                                 !.reason = result.reason]
        amount_usdc == st.fixed_position_amount_usdc
        exec_result == env.exec
    IN IF ~result.should_open
       THEN [ledgers |-> store, positions |-> ps, out |-> out]
       ELSE IF ~exec_result.success
       THEN [ledgers |-> store, positions |-> ps,
             out |-> [out EXCEPT !.submitted = <<exec_result>>,
                                 !.events =
                         emit_order_failed(<<>>, "order_placement_failed", None,
                             exec_result.order_id, asset, TRUE, amount_usdc,
                             None)]]
       ELSE LET price == IF IsNone(trade.price) THEN None
                         ELSE IF Val(trade.price) > 0 THEN trade.price
                         ELSE None
                by_price == IF IsNone(price) THEN amount_usdc
                            ELSE amount_usdc \div Val(price)
                shares_held == IF by_price <= 0 THEN amount_usdc ELSE by_price
                position == BotPosition_create(Len(ps) + 1, ledger.asset, asset,
                                shares_held, price, Some(amount_usdc), env.now)
                ps2 == position_save(ps, position)
                events == emit_order_placed(<<>>, exec_result.order_id,
                              position.id, asset, TRUE, amount_usdc,
                              exec_result.success, exec_result.transaction_hash)
                store2 == init_close_stage_ref(store, ledger, asset)
            IN [ledgers |-> store2, positions |-> ps2,
                out |-> [out EXCEPT !.submitted = <<exec_result>>,
                                    !.created = Some(position.id),
                                    !.events = events,
                                    !.dispatched =
                                        IF events = <<>> THEN <<>>
                                        ELSE <<status_at(ps2, position.id)>>]]

\* The for loop of _handle_sell over to_close[k..]: place_sell_shares,
\* mark_closed, the order-placed event and, on a failed submission, the
\* failed event.  dispatched: what the store held for the position when
\* its order-placed event was sent.
RECURSIVE sell_loop(_, _, _, _, _, _, _)
sell_loop(ps, events, to_close, results, closed_at, asset, k) ==
    IF k > Len(to_close)
    THEN [positions |-> ps, events |-> events, dispatched |-> <<>>]
    ELSE LET position == to_close[k]
             exec_result == results[k]
             marked == mark_closed(ps, position.id, closed_at)
             ev1 == emit_order_placed(events, exec_result.order_id,
                        position.id, asset, FALSE, position.shares_held,
                        exec_result.success, exec_result.transaction_hash)
             ev2 == IF exec_result.success THEN ev1
                    ELSE emit_order_failed(ev1, "order_placement_failed",
                             Some(position.id), exec_result.order_id, asset,
                             FALSE, position.shares_held,
                             exec_result.transaction_hash)
             rest == sell_loop(marked.store, ev2, to_close, results, closed_at,
                               asset, k + 1)
         IN IF ev1 = events THEN rest
            ELSE [rest EXCEPT !.dispatched =
                     <<status_at(marked.store, position.id)>> \o @]

\* mutant: the reference is left where it was
advance_close_stage_ref_kept(store, ledger, asset) == store

\* _handle_sell, after the loop: the next stage starts from the current
\* post_tracking_shares.
advance_close_stage_ref(store, ledger, asset) ==
    update_close_stage_ref(store, asset, Some(ledger.post_tracking_shares))

\* mutant: only a negative count is skipped
close_skipped_negative_only(result) == result.positions_to_close < 0

\* _handle_sell: nothing is done when the policy asks for no position
close_skipped(result) == result.positions_to_close <= 0

\* _handle_sell.  env: results (one place_sell_shares result per position
\* to close), now (the clock read for closed_at).
handle_sell(store, ps, st, trade, ledger, asset, env) ==
    LET open_positions == list_open_by_ledger(ps, ledger.asset)
        open_positions_count == Len(open_positions)
        result == positions_to_close(ledger, open_positions_count, st)
        out == [NoOutcome EXCEPT !.op = "sell",
                                 !.asset = asset,
                                 !.open_positions = ids_of(open_positions),
                                 !.reason = result.reason,
                                 !.n = result.positions_to_close]
    IN IF open_positions_count = 0
       THEN [ledgers |-> store, positions |-> ps,
             out |-> [out EXCEPT !.reason = "", !.n = 0]]
       ELSE IF close_skipped(result)
       THEN [ledgers |-> store, positions |-> ps, out |-> out]
       ELSE LET n == Min(result.positions_to_close, open_positions_count)
                to_close == SubSeq(open_positions, 1, n)
                done == sell_loop(ps, <<>>, to_close, env.results, env.now,
                                  asset, 1)
            IN [ledgers |-> advance_close_stage_ref(store, ledger, asset),
                positions |-> done.positions,
                out |-> [out EXCEPT !.to_close = ids_of(to_close),
                                    !.submitted = SubSeq(env.results, 1, n),
                                    !.events = done.events,
                                    !.dispatched = done.dispatched]]

\* ------------------------------------------------------------ the feed
ValidTrades ==
    {[asset |-> a, side |-> "BUY", size |-> Some(n), price |-> price_of(a)] :
        a \in Assets, n \in 1..MaxSize}
    \cup {[asset |-> a, side |-> "SELL", size |-> Some(n), price |-> None] :
        a \in Assets, n \in 1..MaxSize}

\* Malformed feed items: no asset, blank asset, a side that is neither BUY
\* nor SELL, no side, no size, size 0, negative size.
MalformedTrades ==
    {[asset |-> "", side |-> "BUY", size |-> Some(1), price |-> None],
     [asset |-> " ", side |-> "SELL", size |-> Some(1), price |-> None],
     [asset |-> "a1", side |-> "HOLD", size |-> Some(1), price |-> None],
     [asset |-> "a2", side |-> "", size |-> Some(1), price |-> None],
     [asset |-> "a1", side |-> "BUY", size |-> None, price |-> None],
     [asset |-> "a2", side |-> "SELL", size |-> Some(0), price |-> None],
     [asset |-> "a1", side |-> "SELL", size |-> Some(-1), price |-> None]}

Trades == ValidTrades \cup MalformedTrades

is_valid_trade(trade) ==
    /\ strip(trade.asset) # ""
    /\ trade.side \in Sides
    /\ ~IsNone(trade.size)
    /\ Val(trade.size) > 0

\* ---------------------------------------------------------------- state
VARIABLES
    settings,    \* settings.strategy
    ledgers,     \* the tracking repository: asset -> None or Some(ledger)
    positions,   \* the bot position repository, in insertion order
    copy_engine, \* whether process() has a copy_trading_engine
    pc,          \* where TradeProcessorService.process stands
    msg,         \* the trade of the message being (or last) processed
    applied,     \* apply_trade's ledger before and the ledger it returned
    last,        \* outcome of the last evaluate_and_execute
    queue,       \* the InMemoryQueue between a producer and its consumer
    tasks,       \* where each asyncio task stands, with its local variables
    seen,        \* the seen-trade repository: a set of <<wallet, trade_key>>
    journal      \* what the tasks did, kept for the properties

vars == <<settings, ledgers, positions, copy_engine, pc, msg, applied, last,
          queue, tasks, seen, journal>>
pipeline_vars == <<queue, tasks, seen, journal>>
core_vars == <<settings, ledgers, copy_engine, pc, msg, applied, last>>

\* asyncio.Queue(maxsize): items in arrival order, the shutdown flag, the
\* count of unfinished tasks and the callers blocked in get() and put().
InMemoryQueue_init(maxsize) ==
    [maxsize |-> maxsize, items |-> <<>>, is_shutdown |-> FALSE,
     unfinished_tasks |-> 0, getters |-> <<>>, putters |-> <<>>]

\* No queue, task or seen-trade store takes part.
NoPipeline ==
    /\ queue = InMemoryQueue_init(0)
    /\ tasks = <<>>
    /\ seen = {}
    /\ journal = <<>>

NoTrade == [asset |-> "", side |-> "", size |-> None, price |-> None]

\* Ledgers the snapshot at t0 leaves behind: none, or baseline shares only.
SeededLedgers ==
    {None} \cup {Some(with_snapshot_t0(TrackingLedger_create(a), b)) :
                    a \in Assets, b \in 0..MaxBaseline}

NotApplied == [before |-> None, ret |-> None]

\* The full pipeline, started without a snapshot.
Init ==
    /\ settings \in StrategySettings
    /\ ledgers = [a \in Assets |-> None]
    /\ positions = <<>>
    /\ copy_engine = TRUE
    /\ pc = "get"
    /\ msg = NoTrade
    /\ applied = NotApplied
    /\ last = NoOutcome
    /\ NoPipeline

\* Post-tracking only (process() without a copy_trading_engine), started
\* from any snapshot.
InitLedger ==
    /\ settings \in {st \in StrategySettings : st.max_positions_per_ledger = 1 /\ st.max_active_ledgers = 1}
    /\ ledgers \in {f \in [Assets -> SeededLedgers] :
                       \A a \in Assets : IsNone(f[a]) \/ Val(f[a]).asset = a}
    /\ positions = <<>>
    /\ copy_engine = FALSE
    /\ pc = "get"
    /\ msg = NoTrade
    /\ applied = NotApplied
    /\ last = NoOutcome
    /\ NoPipeline

\* process(), first half: the consumer hands over a message and
\* PostTrackingEngine.apply_trade updates the ledger.
ApplyTrade(trade) ==
    /\ pc = "get"
    /\ (is_valid_trade(trade) /\ trade.side = "BUY") =>
          LET l == tracking_get_or_create(ledgers, strip(trade.asset)).ledger
          IN l.post_tracking_shares + Val(trade.size) <= MaxShares
    /\ LET r == apply_trade(ledgers, trade)
       IN /\ ledgers' = r.store
          /\ applied' = [before |-> r.before, ret |-> r.ret]
          /\ pc' = IF IsNone(r.ret) \/ ~copy_engine THEN "get" ELSE "evaluate"
    /\ msg' = trade
    /\ last' = NoOutcome
    /\ UNCHANGED <<settings, positions, copy_engine>>
    /\ UNCHANGED pipeline_vars

\* process(), second half: evaluate_and_execute on a BUY.
EvaluateBuy ==
    /\ pc = "evaluate"
    /\ msg.side = "BUY"
    /\ \E av \in AccountValues, cp \in CurPrices, ex \in ExecResults, t \in Times :
          /\ ex.success => Len(positions) < MaxPositions
          /\ LET env == [account_total_value_usdc |-> av, cur_price |-> cp,
                         exec |-> ex, now |-> t]
                 r == handle_buy(ledgers, positions, settings, msg,
                                 Val(applied.ret), strip(msg.asset), env)
             IN /\ ledgers' = r.ledgers
                /\ positions' = r.positions
                /\ last' = r.out
    /\ pc' = "get"
    /\ msg' = NoTrade
    /\ applied' = NotApplied
    /\ UNCHANGED <<settings, copy_engine>>
    /\ UNCHANGED pipeline_vars

\* process(), second half: evaluate_and_execute on a SELL.
EvaluateSell ==
    /\ pc = "evaluate"
    /\ msg.side = "SELL"
    /\ LET ledger == Val(applied.ret)
           open_count == Len(list_open_by_ledger(positions, ledger.asset))
           n == Min(positions_to_close(ledger, open_count, settings).positions_to_close,
                    open_count)
       IN \E results \in [1..n -> ExecResults], t \in CloseTimes :
             LET env == [results |-> results, now |-> t]
                 r == handle_sell(ledgers, positions, settings, msg, ledger,
                                  strip(msg.asset), env)
             IN /\ ledgers' = r.ledgers
                /\ positions' = r.positions
                /\ last' = r.out
    /\ pc' = "get"
    /\ msg' = NoTrade
    /\ applied' = NotApplied
    /\ UNCHANGED <<settings, copy_engine>>
    /\ UNCHANGED pipeline_vars

Next ==
    \/ \E trade \in Trades : ApplyTrade(trade)
    \/ EvaluateBuy
    \/ EvaluateSell

Spec == Init /\ [][Next]_vars

NextLedger == \E trade \in Trades : ApplyTrade(trade)

SpecLedger == InitLedger /\ [][NextLedger]_vars

\* ------------------------------------------- the position store alone
\* The operations of the in-memory position repository, called in any
\* order with any arguments.
MaxStorePositions == 1 \* cap on the positions saved
MaxAttempts == 2      \* cap on close_attempts of one position
MaxFees == 1          \* cap on the cumulative fees of one position
\* <<order id, transaction hash>> of a close request or of a matched trade
StoreCloseRefs == {<<None, None>>, <<Some("o1"), Some("tx1")>>, <<Some("o2"), None>>}
StoreProceeds == {None, Some(3)}
StoreFees == {None, Some(1)}
\* the ids asked for: every stored one and one that is not stored
StoreIds == 1..(MaxStorePositions + 1)

InitStore ==
    /\ settings \in {st \in StrategySettings : st.max_positions_per_ledger = 1 /\ st.max_active_ledgers = 1}
    /\ ledgers = [a \in Assets |-> None]
    /\ positions = <<>>
    /\ copy_engine = FALSE
    /\ pc = "get"
    /\ msg = NoTrade
    /\ applied = NotApplied
    /\ last = NoOutcome
    /\ NoPipeline

\* what a store operation handed back
store_outcome(op, position_id, r) ==
    [NoOutcome EXCEPT !.op = op,
                      !.created = Some(position_id),
                      !.reason = IF IsNone(r.ret) THEN "none"
                                 ELSE IF r.store = positions THEN "unchanged"
                                 ELSE "updated"]

StoreSaveNew ==
    /\ Len(positions) < MaxStorePositions
    /\ \E a \in {"a1"}, t \in CloseTimes, entry_cost_usdc \in {None, Some(FixedPositionAmountUsdc)} :
          LET p == BotPosition_create(Len(positions) + 1, a, a,
                       FixedPositionAmountUsdc, None, entry_cost_usdc, t)
          IN /\ positions' = position_save(positions, p)
             /\ last' = [NoOutcome EXCEPT !.op = "save", !.created = Some(p.id)]
    /\ UNCHANGED <<settings, ledgers, copy_engine, pc, msg, applied>>
    /\ UNCHANGED pipeline_vars

StoreMarkClosingPending ==
    /\ \E id \in StoreIds, ref \in StoreCloseRefs, t \in CloseTimes :
          /\ id \in DOMAIN positions => positions[id].close_attempts < MaxAttempts
          /\ LET r == mark_closing_pending(positions, id, ref[1], ref[2], t)
             IN /\ positions' = r.store
                /\ last' = [store_outcome("mark_closing_pending", id, r)
                               EXCEPT !.submitted = <<ref[1], ref[2]>>]
    /\ UNCHANGED <<settings, ledgers, copy_engine, pc, msg, applied>>
    /\ UNCHANGED pipeline_vars

StoreConfirmClosed ==
    /\ \E id \in StoreIds, pr \in StoreProceeds, f \in StoreFees, ref \in StoreCloseRefs, t \in CloseTimes :
          /\ id \in DOMAIN positions => positions[id].fees < MaxFees
          /\ LET r == confirm_closed(positions, id, t, pr, f, ref[1], ref[2])
             IN /\ positions' = r.store
                /\ last' = store_outcome("confirm_closed", id, r)
    /\ UNCHANGED <<settings, ledgers, copy_engine, pc, msg, applied>>
    /\ UNCHANGED pipeline_vars

StoreUpdateClosedPnl ==
    /\ \E id \in StoreIds, pr \in StoreProceeds \ {None}, f \in StoreFees \ {None} :
          /\ id \in DOMAIN positions => positions[id].fees < MaxFees
          /\ LET r == update_closed_pnl(positions, id, Val(pr), Val(f))
             IN /\ positions' = r.store
                /\ last' = store_outcome("update_closed_pnl", id, r)
    /\ UNCHANGED <<settings, ledgers, copy_engine, pc, msg, applied>>
    /\ UNCHANGED pipeline_vars

\* PnLService.compute on a stored position
StoreComputePnl ==
    /\ \E id \in DOMAIN positions :
          /\ last' = [NoOutcome EXCEPT !.op = "compute_pnl", !.created = Some(id)]
          /\ journal' = [position |-> positions[id],
                         pnl |-> PnLService_compute(positions[id])]
    /\ UNCHANGED <<settings, ledgers, positions, copy_engine, pc, msg, applied>>
    /\ UNCHANGED <<queue, tasks, seen>>

NextStore ==
    \/ StoreComputePnl
    \/ StoreSaveNew
    \/ StoreMarkClosingPending
    \/ StoreConfirmClosed
    \/ StoreUpdateClosedPnl

SpecStore == InitStore /\ [][NextStore]_vars

\* ------------------------------------------------- the policies alone
\* OpenPolicy.should_open and ClosePolicy.positions_to_close, called on any
\* input the orchestrator can hand them; each call is looked at on its own.
PolicyStrategySettings ==
    [fixed_position_amount_usdc : {FixedPositionAmountUsdc},
     max_positions_per_ledger : {1, MaxOpenCount},
     max_active_ledgers : {1, 2},
     asset_min_position_percent : {0, 50},
     asset_min_position_shares : {0, 2},
     close_total_threshold_pct : CloseThresholds]
PolicySettings ==
    {st \in PolicyStrategySettings :
        (st.asset_min_position_percent = 0) <=> (st.asset_min_position_shares = 0)}
\* curPrice of the wallet's position in the asset
PolicyCurPrices == {None, Some(2), Some(4)}

InitPolicy ==
    /\ settings \in PolicySettings
    /\ ledgers = [a \in Assets |-> None]
    /\ positions = <<>>
    /\ copy_engine = FALSE
    /\ pc = "get"
    /\ msg = NoTrade
    /\ applied = NotApplied
    /\ last = NoOutcome
    /\ NoPipeline

ShouldOpen ==
    /\ last = NoOutcome
    /\ \E pt \in 0..MaxShares, c \in 0..settings.max_positions_per_ledger, al \in 0..settings.max_active_ledgers, av \in AccountValues, cp \in PolicyCurPrices :
          LET inp == [post_tracking_shares |-> pt,
                      open_positions_count |-> c,
                      active_ledgers_count |-> al,
                      account_total_value_usdc |-> av,
                      post_tracking_value_usdc |->
                          get_post_tracking_value_usdc(pt, cp)]
          IN last' = [op |-> "should_open", inp |-> inp,
                      result |-> should_open(inp, settings)]
    /\ UNCHANGED <<settings, ledgers, positions, copy_engine, pc, msg, applied>>
    /\ UNCHANGED pipeline_vars

PositionsToClose ==
    /\ last = NoOutcome
    /\ \E pt \in 0..MaxRef, ref \in {None} \cup {Some(r) : r \in 0..MaxRef}, c \in 0..settings.max_positions_per_ledger :
          LET ledger == with_close_stage_ref(
                            with_post_tracking(TrackingLedger_create("a1"), pt), ref)
          IN last' = [op |-> "positions_to_close", ledger |-> ledger,
                      open_positions_count |-> c,
                      result |-> positions_to_close(ledger, c, settings)]
    /\ UNCHANGED <<settings, ledgers, positions, copy_engine, pc, msg, applied>>
    /\ UNCHANGED pipeline_vars

NextPolicy ==
    \/ ShouldOpen
    \/ PositionsToClose

SpecPolicy == InitPolicy /\ [][NextPolicy]_vars

\* ------------------------------------------------------- InMemoryQueue
\* The queue hands every call through to asyncio.Queue and renames its
\* exceptions.  A call gives back the queue it leaves, the exception it
\* raised ("" for none), the item it returned, whether the caller is left
\* blocked, and the blocked callers it woke.
queue_full(q) == q.maxsize > 0 /\ Len(q.items) >= q.maxsize
queue_empty(q) == q.items = <<>>

queue_result(q, exc, item, blocked, woken) ==
    [q |-> q, exc |-> exc, item |-> item, blocked |-> blocked, woken |-> woken]

\* The callers a call wakes: the first of a deque of blocked callers, if
\* any (as a set), or all of them.
first_waiter(waiters) == {waiters[i] : i \in DOMAIN waiters \cap {1}}

put_nowait(q, item) ==
    IF q.is_shutdown THEN queue_result(q, "QueueShutdown", None, FALSE, {})
    ELSE IF queue_full(q) THEN queue_result(q, "QueueFull", None, FALSE, {})
    ELSE queue_result([q EXCEPT !.items = Append(q.items, item),
                                !.unfinished_tasks = q.unfinished_tasks + 1,
                                !.getters = SubSeq(q.getters, 2, Len(q.getters))],
                      "", None, FALSE, first_waiter(q.getters))

\* put by caller c, from its start or from where it was woken: it waits
\* while the queue is full.
queue_put(q, c, item) ==
    IF queue_full(q)
    THEN IF q.is_shutdown THEN queue_result(q, "QueueShutdown", None, FALSE, {})
         ELSE queue_result([q EXCEPT !.putters = Append(q.putters, c)],
                           "", None, TRUE, {})
    ELSE put_nowait(q, item)

get_nowait(q) ==
    IF queue_empty(q)
    THEN IF q.is_shutdown THEN queue_result(q, "QueueShutdown", None, FALSE, {})
         ELSE queue_result(q, "QueueEmpty", None, FALSE, {})
    ELSE queue_result([q EXCEPT !.items = Tail(q.items),
                                !.putters = SubSeq(q.putters, 2, Len(q.putters))],
                      "", Some(Head(q.items)), FALSE, first_waiter(q.putters))

\* get by caller c, from its start or from where it was woken: it waits
\* while the queue is empty.
queue_get(q, c) ==
    IF queue_empty(q)
    THEN IF q.is_shutdown THEN queue_result(q, "QueueShutdown", None, FALSE, {})
         ELSE queue_result([q EXCEPT !.getters = Append(q.getters, c)],
                           "", None, TRUE, {})
    ELSE get_nowait(q)

task_done(q) ==
    IF q.unfinished_tasks <= 0 THEN queue_result(q, "ValueError", None, FALSE, {})
    ELSE queue_result([q EXCEPT !.unfinished_tasks = q.unfinished_tasks - 1],
                      "", None, FALSE, {})

\* mutant: the flag is set and the blocked callers are left asleep
queue_shutdown_no_wake(q) ==
    queue_result([q EXCEPT !.is_shutdown = TRUE], "", None, FALSE, {})

\* shutdown(immediate=False): the queued items stay, every blocked getter
\* and putter is woken to look at the queue again.
queue_shutdown(q) ==
    queue_result([q EXCEPT !.is_shutdown = TRUE, !.getters = <<>>,
                           !.putters = <<>>],
                 "", None, FALSE,
                 {q.getters[i] : i \in DOMAIN q.getters}
                     \cup {q.putters[i] : i \in DOMAIN q.putters})

\* -------------------------------------------------- the queue alone
\* Callers put, get and mark items done in any order; one of them shuts
\* the queue down at any moment.
QueueMaxsize == 2     \* maxsize of the queue
MaxPuts == 3          \* cap on the items the queue ever accepts
QueueCallers == {"c1", "c2"}

\* the tasks after a call of caller c that left it at pc (with the item it
\* still has to put) and woke the callers in woken
after_call(ts, c, pc_, item, woken) ==
    [x \in DOMAIN ts |->
        IF x = c THEN [pc |-> pc_, item |-> item]
        ELSE IF x \in woken
        THEN [ts[x] EXCEPT !.pc = IF ts[x].pc = "get_blocked" THEN "get_woken"
                                  ELSE "put_woken"]
        ELSE ts[x]]

InitQueue ==
    /\ settings \in {st \in StrategySettings : st.max_positions_per_ledger = 1 /\ st.max_active_ledgers = 1}
    /\ ledgers = [a \in Assets |-> None]
    /\ positions = <<>>
    /\ copy_engine = FALSE
    /\ pc = "get"
    /\ msg = NoTrade
    /\ applied = NotApplied
    /\ last = NoOutcome
    /\ queue = InMemoryQueue_init(QueueMaxsize)
    /\ tasks = [c \in QueueCallers |-> [pc |-> "idle", item |-> None]]
    /\ seen = {}
    /\ journal = [accepted |-> <<>>, got |-> <<>>, done |-> 0,
                  call |-> [caller |-> "", op |-> "none", exc |-> "",
                            item |-> None, blocked |-> FALSE,
                            resumed |-> FALSE, was_shutdown |-> FALSE,
                            was_empty |-> TRUE]]

\* what the journal keeps of a call
journal_call(c, op, r, item) ==
    [journal EXCEPT
        !.accepted = IF op \in {"put", "put_nowait"} /\ r.exc = "" /\ ~r.blocked
                     THEN Append(@, item) ELSE @,
        !.got = IF op \in {"get", "get_nowait"} /\ ~IsNone(r.item)
                THEN Append(@, Val(r.item)) ELSE @,
        !.done = IF op = "task_done" /\ r.exc = "" THEN @ + 1 ELSE @,
        !.call = [caller |-> c, op |-> op, exc |-> r.exc, item |-> r.item,
                  blocked |-> r.blocked, resumed |-> tasks[c].pc # "idle",
                  was_shutdown |-> queue.is_shutdown,
                  was_empty |-> queue_empty(queue)]]

\* await queue.put(item), from the start or after a wake-up
QueuePut(c) ==
    /\ tasks[c].pc \in {"idle", "put_woken"}
    /\ tasks[c].pc = "idle" => (Len(journal.accepted) < MaxPuts \/ queue.is_shutdown)
    /\ LET item == IF tasks[c].pc = "idle" THEN Len(journal.accepted) + 1
                   ELSE Val(tasks[c].item)
           r == queue_put(queue, c, item)
       IN /\ queue' = r.q
          /\ tasks' = after_call(tasks, c,
                          IF r.blocked THEN "put_blocked" ELSE "idle",
                          IF r.blocked THEN Some(item) ELSE None, r.woken)
          /\ journal' = journal_call(c, "put", r, item)
    /\ UNCHANGED <<core_vars, positions, seen>>

QueuePutNowait(c) ==
    /\ tasks[c].pc = "idle"
    /\ Len(journal.accepted) < MaxPuts \/ queue.is_shutdown
    /\ LET item == Len(journal.accepted) + 1
           r == put_nowait(queue, item)
       IN /\ queue' = r.q
          /\ tasks' = after_call(tasks, c, "idle", None, r.woken)
          /\ journal' = journal_call(c, "put_nowait", r, item)
    /\ UNCHANGED <<core_vars, positions, seen>>

\* await queue.get(), from the start or after a wake-up
QueueGet(c) ==
    /\ tasks[c].pc \in {"idle", "get_woken"}
    /\ LET r == queue_get(queue, c)
       IN /\ queue' = r.q
          /\ tasks' = after_call(tasks, c,
                          IF r.blocked THEN "get_blocked" ELSE "idle", None,
                          r.woken)
          /\ journal' = journal_call(c, "get", r, None)
    /\ UNCHANGED <<core_vars, positions, seen>>

QueueGetNowait(c) ==
    /\ tasks[c].pc = "idle"
    /\ LET r == get_nowait(queue)
       IN /\ queue' = r.q
          /\ tasks' = after_call(tasks, c, "idle", None, r.woken)
          /\ journal' = journal_call(c, "get_nowait", r, None)
    /\ UNCHANGED <<core_vars, positions, seen>>

\* task_done() for an item a get handed out
QueueTaskDone(c) ==
    /\ tasks[c].pc = "idle"
    /\ journal.done < Len(journal.got)
    /\ LET r == task_done(queue)
       IN /\ queue' = r.q
          /\ tasks' = after_call(tasks, c, "idle", None, r.woken)
          /\ journal' = journal_call(c, "task_done", r, None)
    /\ UNCHANGED <<core_vars, positions, seen>>

QueueShutdownCall(c) ==
    /\ tasks[c].pc = "idle"
    /\ ~queue.is_shutdown
    /\ LET r == queue_shutdown(queue)
       IN /\ queue' = r.q
          /\ tasks' = after_call(tasks, c, "idle", None, r.woken)
          /\ journal' = journal_call(c, "shutdown", r, None)
    /\ UNCHANGED <<core_vars, positions, seen>>

NextQueue ==
    \E c \in QueueCallers :
        \/ QueuePut(c)
        \/ QueuePutNowait(c)
        \/ QueueGet(c)
        \/ QueueGetNowait(c)
        \/ QueueTaskDone(c)
        \/ QueueShutdownCall(c)

SpecQueue == InitQueue /\ [][NextQueue]_vars

\* -------------------------------------------------- OrderAnalysisWorker
WorkerMaxAttempts == 2   \* settings.order_analysis.max_attempts
WorkerQueueMaxsize == 1  \* maxsize of the reconciliation queue
MaxDeliveries == 2       \* cap on the order-placed events delivered

\* PendingOrder built by _on_order_placed from the event
PendingOrder(event) ==
    [order_id |-> event.order_id, position_id |-> Val(event.position_id),
     asset |-> event.asset, is_open |-> event.is_open,
     transaction_hash |-> event.transaction_hash]

\* mutant: a full queue drops the order without a failed event
on_order_placed_drop_silently(q, event) ==
    IF ~event.success \/ event.order_id = ""
    THEN [q |-> q, woken |-> {}, events |-> <<>>]
    ELSE LET r == put_nowait(q, PendingOrder(event))
         IN [q |-> r.q, woken |-> r.woken, events |-> <<>>]

\* _on_order_placed on queue q: the queue it leaves and the events it
\* dispatched.  An exception other than QueueFull is logged only.
on_order_placed(q, event) ==
    IF ~event.success \/ event.order_id = ""
    THEN [q |-> q, woken |-> {}, events |-> <<>>]
    ELSE LET r == put_nowait(q, PendingOrder(event))
         IN [q |-> r.q, woken |-> r.woken,
             events |-> IF r.exc = "QueueFull"
                        THEN emit_order_failed(<<>>, "queue_full",
                                 event.position_id, Some(event.order_id),
                                 event.asset, event.is_open, event.amount,
                                 event.transaction_hash)
                        ELSE <<>>]

\* mutant: equal transaction hashes match even when the pending order has none
trade_matches_pending_any_hash(trade, pending) ==
    \/ \E i \in DOMAIN trade.maker_orders : trade.maker_orders[i] = pending.order_id
    \/ trade.taker_order_id = Some(pending.order_id)
    \/ trade.transaction_hash = pending.transaction_hash

\* _trade_matches_pending: maker_orders, then taker_order_id, then the
\* transaction hash when the pending order has a non-empty one.
trade_matches_pending(trade, pending) ==
    \/ \E i \in DOMAIN trade.maker_orders : trade.maker_orders[i] = pending.order_id
    \/ trade.taker_order_id = Some(pending.order_id)
    \/ /\ ~IsNone(pending.transaction_hash)
       /\ Val(pending.transaction_hash) # ""
       /\ trade.transaction_hash = pending.transaction_hash

\* _find_trade: the first trade of the answer of get_trades that matches;
\* None when there is none or get_trades raised (answer None).
RECURSIVE find_trade(_, _)
find_trade(trades, pending) ==
    IF IsNone(trades) THEN None
    ELSE IF Val(trades) = <<>> THEN None
    ELSE IF trade_matches_pending(Head(Val(trades)), pending)
    THEN Some(Head(Val(trades)))
    ELSE find_trade(Some(Tail(Val(trades))), pending)

\* mutant: one poll more than max_attempts
attempts_exhausted_late(attempts) == attempts > WorkerMaxAttempts

\* for _ in range(1, self._max_attempts + 1): the loop of _process_pending
\* ends after the attempt numbered max_attempts.
attempts_exhausted(attempts) == attempts >= WorkerMaxAttempts

\* _compute_fee_usdc (the inputs keep the quotient whole)
compute_fee_usdc(notional_usdc, fee_rate_bps) ==
    IF fee_rate_bps <= 0 THEN 0
    ELSE (notional_usdc * fee_rate_bps) \div 10000

\* mutant: the save writes the position as it was when the order was placed
\* (OPEN, no close request)
update_open_position_stale(ps, position, entry_cost_usdc, open_fee_usdc) ==
    LET updated == [position EXCEPT !.entry_cost_usdc = Some(entry_cost_usdc),
                                    !.fees = position.fees + open_fee_usdc,
                                    !.status = OPEN, !.closed_at = None,
                                    !.close_order_id = None,
                                    !.close_requested_at = None,
                                    !.close_attempts = 0]
    IN [ret |-> Some(updated), store |-> position_save(ps, updated)]

\* mutant: the fee replaces the cumulative fees
update_open_position_fee_set(ps, position, entry_cost_usdc, open_fee_usdc) ==
    LET updated == [position EXCEPT !.entry_cost_usdc = Some(entry_cost_usdc),
                                    !.fees = open_fee_usdc]
    IN [ret |-> Some(updated), store |-> position_save(ps, updated)]

\* _update_open_position: replace(position, entry_cost_usdc, fees), save
update_open_position(ps, position, entry_cost_usdc, open_fee_usdc) ==
    LET updated == [position EXCEPT !.entry_cost_usdc = Some(entry_cost_usdc),
                                    !.fees = position.fees + open_fee_usdc]
    IN [ret |-> Some(updated), store |-> position_save(ps, updated)]

\* Decimal(str(text)) of _apply_trade_to_position: the number, or the
\* decimal.InvalidOperation the constructor raises on text that is no number
\* (an ArithmeticError, neither a TypeError nor a ValueError).
parse_decimal(text) ==
    CASE text = "1" -> [exc |-> "", value |-> 1]
      [] text = "2" -> [exc |-> "", value |-> 2]
      [] OTHER -> [exc |-> "InvalidOperation", value |-> 0]

\* int(fee_bps_str) if fee_bps_str else 0: the empty text is 0, text that is
\* no integer raises ValueError.
parse_int(text) ==
    CASE text = "" -> [exc |-> "", value |-> 0]
      [] text = "0" -> [exc |-> "", value |-> 0]
      [] text = "5000" -> [exc |-> "", value |-> 5000]
      [] OTHER -> [exc |-> "ValueError", value |-> 0]

\* The exception the parsing block of _apply_trade_to_position ends with
\* ("" when it ends normally): size, then price, then fee_rate_bps.
parse_trade_exc(trade) ==
    IF parse_decimal(trade.size).exc # "" THEN parse_decimal(trade.size).exc
    ELSE IF parse_decimal(trade.price).exc # "" THEN parse_decimal(trade.price).exc
    ELSE parse_int(trade.fee_rate_bps).exc

\* notional = size * price of a trade whose fields parse
trade_notional(trade) ==
    parse_decimal(trade.size).value * parse_decimal(trade.price).value

\* fee_usdc of a trade whose fields parse
trade_fee_usdc(trade) ==
    compute_fee_usdc(trade_notional(trade), parse_int(trade.fee_rate_bps).value)

\* _apply_trade_to_position with the clock read now (closed_at of
\* with_closed): the store it leaves, the position it returns, the events it
\* dispatched and the exception that left it ("" when it returned).  The
\* parsing block catches TypeError and ValueError only.
apply_trade_to_position(ps, pending, trade, now) ==
    LET position == position_get(ps, pending.position_id)
        exc == parse_trade_exc(trade)
    IN IF IsNone(position)
       THEN [store |-> ps, updated |-> None, raised |-> "",
             events |-> emit_order_failed(<<>>, "position_not_found",
                            Some(pending.position_id), Some(pending.order_id),
                            pending.asset, pending.is_open, None,
                            pending.transaction_hash)]
       ELSE IF exc \in {"TypeError", "ValueError"}
       THEN [store |-> ps, updated |-> None, raised |-> "",
             events |-> emit_order_failed(<<>>, "parse_trade_error",
                            Some(pending.position_id), Some(pending.order_id),
                            pending.asset, pending.is_open, None,
                            pending.transaction_hash)]
       ELSE IF exc # ""
       THEN [store |-> ps, updated |-> None, raised |-> exc, events |-> <<>>]
       ELSE IF pending.is_open
       THEN LET r == update_open_position(ps, Val(position),
                         trade_notional(trade), trade_fee_usdc(trade))
            IN [store |-> r.store, updated |-> r.ret, raised |-> "",
                events |-> <<>>]
       ELSE LET r == confirm_closed(ps, pending.position_id, now,
                         Some(trade_notional(trade)), Some(trade_fee_usdc(trade)),
                         Some(pending.order_id), trade.transaction_hash)
            IN [store |-> r.store, updated |-> r.ret, raised |-> "",
                events |-> IF IsNone(r.ret)
                           THEN emit_order_failed(<<>>, "position_update_failed",
                                    Some(pending.position_id),
                                    Some(pending.order_id), pending.asset,
                                    FALSE, None, None)
                           ELSE <<>>]

\* ------------------------------------------- the worker and its queue
\* Trades of the exchange feed (TradeSchema; the numbers arrive as text)
WellFormedTrades ==
    {[maker_orders |-> <<"o1">>, taker_order_id |-> None,
      transaction_hash |-> Some("tx9"), size |-> "2", price |-> "2", fee_rate_bps |-> "5000"],
     [maker_orders |-> <<"zz", "o2">>, taker_order_id |-> Some("zz"),
      transaction_hash |-> None, size |-> "2", price |-> "1", fee_rate_bps |-> ""],
     [maker_orders |-> <<>>, taker_order_id |-> Some("o1"),
      transaction_hash |-> None, size |-> "1", price |-> "2", fee_rate_bps |-> "5000"],
     [maker_orders |-> <<"zz">>, taker_order_id |-> Some("zz"),
      transaction_hash |-> Some("tx1"), size |-> "2", price |-> "2", fee_rate_bps |-> "0"],
     [maker_orders |-> <<>>, taker_order_id |-> None,
      transaction_hash |-> None, size |-> "2", price |-> "2", fee_rate_bps |-> "0"]}
\* Trades of the feed with a field that is no number
UnparsableTrades ==
    {[maker_orders |-> <<"o1">>, taker_order_id |-> None,
      transaction_hash |-> None, size |-> "abc", price |-> "2", fee_rate_bps |-> "0"],
     [maker_orders |-> <<"o2">>, taker_order_id |-> None,
      transaction_hash |-> None, size |-> "2", price |-> "2", fee_rate_bps |-> "abc"]}
WorkerFeedTrades == WellFormedTrades \cup UnparsableTrades
\* What one get_trades call answers: None when it raised, else up to two
\* trades.
PollResults ==
    {None, Some(<<>>)} \cup {Some(<<t>>) : t \in WorkerFeedTrades}
        \cup {Some(<<t, u>>) : t \in WellFormedTrades, u \in WellFormedTrades}
\* The order-placed events the bus can deliver: for the stored position ids,
\* and one for a position id that is not stored.
OrderPlacedEvents(ps) ==
    {CopyTradeOrderPlacedEvent(o, id, "a1", io, None, ok, h) :
        o \in {"", "o1", "o2"}, id \in DOMAIN ps, io \in BOOLEAN,
        ok \in BOOLEAN, h \in {None, Some("tx1")}}
      \cup {CopyTradeOrderPlacedEvent("o2", Len(ps) + 1, "a1", TRUE, None, TRUE, None)}

\* The worker: where _worker_loop stands (pc), the order in hand, the polls
\* made for it, the events delivered so far, where stop() stands, the orders
\* a confirmation was already sent for, and whether the position of the open
\* order in hand left OPEN since the order was dequeued.
IdleWorker ==
    [pc |-> "get", pending |-> None, attempts |-> 0, delivered |-> 0,
     stop |-> "running", reconciled |-> {}, raced |-> FALSE]
NoWorkerStep ==
    [op |-> "none", event |-> None, pending |-> None, polled |-> None,
     found |-> None, attempts |-> 0, events |-> <<>>, notified |-> <<>>,
     before |-> <<>>, items_before |-> <<>>, reconciled_before |-> {},
     raced |-> FALSE]

InitWorker ==
    /\ settings \in {st \in StrategySettings : st.max_positions_per_ledger = 1 /\ st.max_active_ledgers = 1}
    /\ ledgers = [a \in Assets |-> None]
    /\ positions = <<BotPosition_create(1, "a1", "a1", FixedPositionAmountUsdc,
                         None, Some(FixedPositionAmountUsdc), <<0, 0>>)>>
    /\ copy_engine = TRUE
    /\ pc = "get"
    /\ msg = NoTrade
    /\ applied = NotApplied
    /\ last = NoOutcome
    /\ queue = InMemoryQueue_init(WorkerQueueMaxsize)
    /\ tasks = IdleWorker
    /\ seen = {}
    /\ journal = NoWorkerStep

\* The orchestrator's close of an OPEN position: mark_closed (the call of
\* _handle_sell) or mark_closing_pending (the other transition the
\* repository offers).
WorkerEngineClose ==
    /\ \E id \in DOMAIN positions, pending_first \in BOOLEAN :
          /\ is_open(positions[id])
          /\ positions' =
                IF pending_first
                THEN mark_closing_pending(positions, id, Some("o1"), None,
                                          <<0, 0>>).store
                ELSE mark_closed(positions, id, <<0, 0>>).store
          /\ tasks' = [tasks EXCEPT !.raced =
                          \/ @
                          \/ /\ tasks.pc = "poll"
                             /\ Val(tasks.pending).is_open
                             /\ Val(tasks.pending).position_id = id]
    /\ journal' = [NoWorkerStep EXCEPT !.op = "engine_close",
                                       !.before = positions,
                                       !.items_before = queue.items]
    /\ UNCHANGED <<core_vars, queue, seen>>

\* The event bus calls _on_order_placed (the handler start() subscribed and
\* stop() unsubscribes).
OnOrderPlaced ==
    /\ tasks.stop = "running"
    /\ tasks.delivered < MaxDeliveries
    /\ \E event \in OrderPlacedEvents(positions) :
          LET r == on_order_placed(queue, event)
          IN /\ queue' = r.q
             /\ journal' = [NoWorkerStep EXCEPT !.op = "on_order_placed",
                                                !.event = Some(event),
                                                !.events = r.events,
                                                !.before = positions,
                                                !.items_before = queue.items]
    /\ tasks' = [tasks EXCEPT !.delivered = @ + 1]
    /\ UNCHANGED <<core_vars, positions, seen>>

\* _worker_loop: pending = await self._queue.get()
WorkerGet ==
    /\ tasks.pc = "get"
    /\ ~queue_empty(queue)
    /\ LET r == queue_get(queue, "worker")
       IN /\ queue' = r.q
          /\ tasks' = [tasks EXCEPT !.pc = "poll", !.pending = r.item,
                                    !.attempts = 0, !.raced = FALSE]
          /\ journal' = [NoWorkerStep EXCEPT !.op = "get", !.pending = r.item,
                                             !.before = positions,
                                             !.items_before = queue.items]
    /\ UNCHANGED <<core_vars, positions, seen>>

\* One attempt of _process_pending: _find_trade and, on a match,
\* _apply_trade_to_position and the confirmation; after the last miss the
\* trade_not_found event.  task_done() follows the end of _process_pending,
\* also when an exception left it (except Exception of _worker_loop).
WorkerPoll ==
    /\ tasks.pc = "poll"
    /\ \E polled \in PollResults, now \in CloseTimes :
          LET pending == Val(tasks.pending)
              trade == find_trade(polled, pending)
              attempts == tasks.attempts + 1
              idle == [tasks EXCEPT !.pc = "get", !.pending = None,
                                    !.attempts = 0, !.raced = FALSE]
              step == [NoWorkerStep EXCEPT !.pending = tasks.pending,
                                           !.polled = polled, !.found = trade,
                                           !.attempts = attempts,
                                           !.before = positions,
                                           !.items_before = queue.items,
                                           !.reconciled_before = tasks.reconciled,
                                           !.raced = tasks.raced]
          IN IF ~IsNone(trade)
             THEN LET r == apply_trade_to_position(positions, pending,
                               Val(trade), now)
                  IN /\ positions' = r.store
                     /\ queue' = task_done(queue).q
                     /\ tasks' = [idle EXCEPT !.reconciled =
                                     IF IsNone(r.updated) THEN @
                                     ELSE @ \cup {pending}]
                     /\ journal' =
                           [step EXCEPT !.op =
                                            IF r.raised # "" THEN "raised"
                                            ELSE IF r.events = <<>> THEN "matched"
                                            ELSE IF r.events[1].reason = "position_update_failed"
                                            THEN "matched"
                                            ELSE r.events[1].reason,
                                        !.events = r.events,
                                        !.notified =
                                            IF IsNone(r.updated) THEN <<>>
                                            ELSE <<[position |-> Val(r.updated),
                                                    trade |-> Val(trade),
                                                    is_open |-> pending.is_open]>>]
             ELSE IF ~attempts_exhausted(attempts)
             THEN /\ tasks' = [tasks EXCEPT !.attempts = attempts]
                  /\ journal' = [step EXCEPT !.op = "missed"]
                  /\ UNCHANGED <<positions, queue>>
             ELSE /\ queue' = task_done(queue).q
                  /\ tasks' = idle
                  /\ journal' =
                        [step EXCEPT !.op = "gave_up",
                                     !.events =
                                         emit_order_failed(<<>>, "trade_not_found",
                                             Some(pending.position_id),
                                             Some(pending.order_id),
                                             pending.asset, pending.is_open,
                                             None, pending.transaction_hash)]
                  /\ UNCHANGED positions
    /\ UNCHANGED <<core_vars, seen>>

\* stop() up to its last await: _unsubscribe(), self._queue.shutdown(),
\* self._task.cancel() and the await of the task.  The CancelledError ends
\* _worker_loop at its await (queue.get, get_trades or sleep) through
\* "except asyncio.CancelledError: break", without task_done().
WorkerStop ==
    /\ tasks.stop = "running"
    /\ queue' = queue_shutdown(queue).q
    /\ tasks' = [tasks EXCEPT !.stop = "join", !.pc = "cancelled"]
    /\ journal' = [NoWorkerStep EXCEPT !.op = "stop", !.pending = tasks.pending,
                                       !.before = positions,
                                       !.items_before = queue.items]
    /\ UNCHANGED <<core_vars, positions, seen>>

\* stop(): await self._queue.join() returns once unfinished_tasks is 0.
WorkerStopJoin ==
    /\ tasks.stop = "join"
    /\ queue.unfinished_tasks = 0
    /\ tasks' = [tasks EXCEPT !.stop = "stopped"]
    /\ journal' = [NoWorkerStep EXCEPT !.op = "stopped",
                                       !.before = positions,
                                       !.items_before = queue.items]
    /\ UNCHANGED <<core_vars, positions, queue, seen>>

NextWorker ==
    \/ WorkerEngineClose
    \/ OnOrderPlaced
    \/ WorkerGet
    \/ WorkerPoll
    \/ WorkerStop
    \/ WorkerStopJoin

SpecWorker == InitWorker /\ [][NextWorker]_vars

\* ------------------------------------------------ seen-trade store
\* utils.dedupe.trade_key: the transaction hash when there is one, else the
\* id (the feed's trades all carry an id).
trade_key(t) == IF t.transactionHash # "" THEN <<"tx", t.transactionHash>>
                ELSE <<"id", t.id>>

\* _key / SeenTrade.create: wallet and trade key stripped
seen_key(wallet, k) == <<strip(wallet), <<k[1], strip(k[2])>>>>

seen_contains(st, wallet, k) ==
    \E i \in DOMAIN st : seen_key(st[i].wallet, st[i].trade_key) = seen_key(wallet, k)

\* mutant: add stores the record whether or not the key is present
seen_add_always(st, wallet, k) ==
    Append(st, [wallet |-> strip(wallet), trade_key |-> seen_key(wallet, k)[2]])

\* InMemorySeenTradeRepository.add of SeenTrade.create(wallet, k); the store
\* is the dict in insertion order.
seen_add(st, wallet, k) ==
    IF seen_contains(st, wallet, k) THEN st
    ELSE Append(st, [wallet |-> strip(wallet), trade_key |-> seen_key(wallet, k)[2]])

\* add_batch of the baseline built from the trades of one answer
RECURSIVE add_batch(_, _, _)
add_batch(st, wallet, trades) ==
    IF trades = <<>> THEN st
    ELSE add_batch(seen_add(st, wallet, trade_key(Head(trades))), wallet,
                   Tail(trades))

\* ------------------------------------ tracker, trade queue, consumer
TradesLimit == 2           \* settings.tracking.trades_limit
MaxCycles == 2             \* cap on the poll cycles of the tracker
PipelineQueueMaxsize == 1  \* settings.tracking.queue_size

\* Trades of the Data API feed; two of them share a transaction hash up to
\* surrounding blanks.
FeedTrades ==
    {[timestamp |-> 1, transactionHash |-> "h1", id |-> "1"],
     [timestamp |-> 2, transactionHash |-> "h2", id |-> "2"],
     [timestamp |-> 3, transactionHash |-> "", id |-> "3"],
     [timestamp |-> 4, transactionHash |-> "h1 ", id |-> "4"]}
\* What get_trades answers: None when it raised, else at most TradesLimit
\* trades, most recent first.
PollAnswers ==
    {None} \cup
    {Some(s) : s \in {s \in UNION {[1..n -> FeedTrades] : n \in 0..TradesLimit} :
                         \A i \in 1..(Len(s) - 1) : s[i].timestamp > s[i + 1].timestamp}}

\* mutant: the answer is walked in the order the feed gave it
reversed_not(s) == s

\* reversed(newest)
reversed(s) == [i \in 1..Len(s) |-> s[Len(s) + 1 - i]]

\* The for loop of track over todo, up to its end or to the put that has to
\* wait (the head of the todo it leaves); resumed: the head is the trade
\* whose put was waiting.  acc collects the trades enqueued and the callers
\* woken.
RECURSIVE track_loop(_, _, _, _, _)
track_loop(todo, st, q, resumed, acc) ==
    IF todo = <<>>
    THEN [seen |-> st, q |-> q, todo |-> <<>>, blocked |-> FALSE,
          enqueued |-> acc.enqueued, woken |-> acc.woken]
    ELSE IF ~resumed /\ seen_contains(st, Wallet, trade_key(Head(todo)))
    THEN track_loop(Tail(todo), st, q, FALSE, acc)
    ELSE IF queue_full(q)
    THEN [seen |-> IF resumed THEN st
                   ELSE seen_add(st, Wallet, trade_key(Head(todo))),
          q |-> queue_put(q, "tracker", Head(todo)).q, todo |-> todo,
          blocked |-> TRUE, enqueued |-> acc.enqueued, woken |-> acc.woken]
    ELSE track_loop(Tail(todo),
                    IF resumed THEN st
                    ELSE seen_add(st, Wallet, trade_key(Head(todo))),
                    queue_put(q, "tracker", Head(todo)).q, FALSE,
                    [enqueued |-> Append(acc.enqueued, Head(todo)),
                     woken |-> acc.woken \cup queue_put(q, "tracker", Head(todo)).woken])

\* a cancelled waiter leaves the deque it was waiting in
without_waiter(q, c) ==
    [q EXCEPT !.getters = SelectSeq(q.getters, LAMBDA x : x # c),
              !.putters = SelectSeq(q.putters, LAMBDA x : x # c)]

InitPipeline ==
    /\ settings \in {st \in StrategySettings : st.max_positions_per_ledger = 1 /\ st.max_active_ledgers = 1}
    /\ ledgers = [a \in Assets |-> None]
    /\ positions = <<>>
    /\ copy_engine = TRUE
    /\ pc = "get"
    /\ msg = NoTrade
    /\ applied = NotApplied
    /\ last = NoOutcome
    /\ queue = InMemoryQueue_init(PipelineQueueMaxsize)
    /\ tasks = [c \in {"tracker", "consumer", "main"} |->
                   [pc |-> CASE c = "tracker" -> "baseline"
                             [] c = "consumer" -> "idle"
                             [] OTHER -> "running",
                    item |-> <<>>]]
    /\ seen = <<>>
    /\ journal = [baseline |-> {}, cycle |-> 0, cycles |-> <<>>,
                  enqueued |-> <<>>, got |-> <<>>, done |-> <<>>,
                  reason |-> ""]

\* Baseline fetch of track: every trade of the first answer is marked seen.
TrackerBaseline ==
    /\ tasks["tracker"].pc = "baseline"
    /\ \E latest \in PollAnswers :
          IF IsNone(latest)
          THEN /\ tasks' = [tasks EXCEPT !["tracker"].pc = "failed"]
               /\ UNCHANGED <<seen, journal>>
          ELSE /\ seen' = add_batch(seen, Wallet, Val(latest))
               /\ tasks' = [tasks EXCEPT !["tracker"].pc = "sleep"]
               /\ journal' = [journal EXCEPT
                     !.baseline = {trade_key(Val(latest)[i]) : i \in DOMAIN Val(latest)}]
    /\ UNCHANGED <<core_vars, positions, queue>>

\* One poll cycle of track: get_trades, then the loop over reversed(newest)
\* up to its end or to a put that has to wait.  An exception of get_trades
\* ends the task.
TrackerPoll ==
    /\ tasks["tracker"].pc = "sleep"
    /\ journal.cycle < MaxCycles
    /\ \E newest \in PollAnswers :
          IF IsNone(newest)
          THEN /\ tasks' = [tasks EXCEPT !["tracker"].pc = "failed"]
               /\ UNCHANGED <<seen, queue, journal>>
          ELSE LET r == track_loop(reversed(Val(newest)), seen, queue, FALSE,
                                   [enqueued |-> <<>>, woken |-> {}])
               IN /\ seen' = r.seen
                  /\ queue' = r.q
                  /\ tasks' = after_call(tasks, "tracker",
                                  IF r.blocked THEN "put_blocked" ELSE "sleep",
                                  r.todo, r.woken)
                  /\ journal' = [journal EXCEPT
                        !.cycle = @ + 1,
                        !.cycles = Append(@, [newest |-> Val(newest),
                                              enqueued |-> r.enqueued]),
                        !.enqueued = @ \o r.enqueued]
    /\ UNCHANGED <<core_vars, positions>>

\* The put that was waiting goes on after a get made room, and the loop
\* with it.
TrackerResume ==
    /\ tasks["tracker"].pc = "put_woken"
    /\ LET r == track_loop(tasks["tracker"].item, seen, queue, TRUE,
                           [enqueued |-> <<>>, woken |-> {}])
       IN /\ seen' = r.seen
          /\ queue' = r.q
          /\ tasks' = after_call(tasks, "tracker",
                          IF r.blocked THEN "put_blocked" ELSE "sleep",
                          r.todo, r.woken)
          /\ journal' = [journal EXCEPT
                !.cycles[Len(journal.cycles)].enqueued = @ \o r.enqueued,
                !.enqueued = @ \o r.enqueued]
    /\ UNCHANGED <<core_vars, positions>>

\* _consume_loop: message = await self._queue.get(); QueueShutdown ends
\* the loop.
ConsumerGet ==
    /\ tasks["consumer"].pc \in {"idle", "get_woken"}
    /\ LET r == queue_get(queue, "consumer")
       IN /\ queue' = r.q
          /\ tasks' = after_call(tasks, "consumer",
                          IF r.blocked THEN "get_blocked"
                          ELSE IF r.exc # "" THEN "exited" ELSE "process",
                          r.item, r.woken)
          /\ journal' = [journal EXCEPT
                !.got = IF IsNone(r.item) THEN @ ELSE Append(@, Val(r.item)),
                !.reason = IF r.exc # "" THEN "queue_shutdown" ELSE @]
    /\ UNCHANGED <<core_vars, positions, seen>>

\* _consume_loop: await self._processor.process(message) and, in the
\* finally, task_done().  An exception of process leaves the while loop:
\* no except clause of _consume_loop names it.
ConsumerProcess ==
    /\ tasks["consumer"].pc = "process"
    /\ \E raised \in BOOLEAN :
          /\ tasks' = [tasks EXCEPT
                !["consumer"] = [pc |-> IF raised THEN "exited" ELSE "idle",
                                 item |-> <<>>]]
          /\ journal' = [journal EXCEPT
                !.done = Append(@, [trade |-> Val(tasks["consumer"].item),
                                    raised |-> raised]),
                !.reason = IF raised THEN "exception" ELSE @]
    /\ queue' = task_done(queue).q
    /\ UNCHANGED <<core_vars, positions, seen>>

\* run, finally: track_task.cancel(); await track_task.  A tracker that
\* ended with an exception hands it to the await, which catches
\* CancelledError only: the rest of the finally block is not run.
MainCancelTracker ==
    /\ tasks["main"].pc = "running"
    /\ IF tasks["tracker"].pc = "failed"
       THEN /\ tasks' = [tasks EXCEPT !["main"].pc = "aborted"]
            /\ UNCHANGED queue
       ELSE /\ tasks' = [tasks EXCEPT !["main"].pc = "shutdown",
                                      !["tracker"].pc = "cancelled"]
            /\ queue' = without_waiter(queue, "tracker")
    /\ UNCHANGED <<core_vars, positions, seen, journal>>

\* run, finally: trade_queue.shutdown()
MainShutdown ==
    /\ tasks["main"].pc = "shutdown"
    /\ LET r == queue_shutdown(queue)
       IN /\ queue' = r.q
          /\ tasks' = after_call(tasks, "main", "join", <<>>, r.woken)
    /\ UNCHANGED <<core_vars, positions, seen, journal>>

\* run, finally: await trade_queue.join() returns once every item handed
\* to the queue has been marked done.
MainJoin ==
    /\ tasks["main"].pc = "join"
    /\ queue.unfinished_tasks = 0
    /\ tasks' = [tasks EXCEPT !["main"].pc = "stop"]
    /\ UNCHANGED <<core_vars, positions, seen, queue, journal>>

\* run, finally: await consumer.stop() cancels the consume task if it is
\* still running.
MainStop ==
    /\ tasks["main"].pc = "stop"
    /\ IF tasks["consumer"].pc = "exited"
       THEN /\ tasks' = [tasks EXCEPT !["main"].pc = "done"]
            /\ UNCHANGED <<queue, journal>>
       ELSE /\ tasks' = [tasks EXCEPT !["main"].pc = "done",
                                      !["consumer"].pc = "cancelled"]
            /\ queue' = without_waiter(queue, "consumer")
            /\ journal' = [journal EXCEPT !.reason = "cancelled"]
    /\ UNCHANGED <<core_vars, positions, seen>>

NextPipeline ==
    \/ TrackerBaseline
    \/ TrackerPoll
    \/ TrackerResume
    \/ ConsumerGet
    \/ ConsumerProcess
    \/ MainCancelTracker
    \/ MainShutdown
    \/ MainJoin
    \/ MainStop

SpecPipeline == InitPipeline /\ [][NextPipeline]_vars

\* ------------------------------------------- TradeConsumer start / stop
\* start() and stop() are called by concurrent tasks.  No await stands
\* inside an `async with self._lock` block of start, stop or the finally of
\* _consume_loop, so the lock is free whenever a task reaches it and each
\* block runs as one step.  tasks.loops[l] is "none" (not created),
\* "active", "cancelling" (cancel() called, the loop has not unwound yet)
\* or "done".
MaxLoops == 3   \* cap on the consume loops ever created

InitConsumer ==
    /\ settings \in {st \in StrategySettings : st.max_positions_per_ledger = 1 /\ st.max_active_ledgers = 1}
    /\ ledgers = [a \in Assets |-> None]
    /\ positions = <<>>
    /\ copy_engine = TRUE
    /\ pc = "get"
    /\ msg = NoTrade
    /\ applied = NotApplied
    /\ last = NoOutcome
    /\ queue = InMemoryQueue_init(PipelineQueueMaxsize)
    /\ tasks = [running |-> FALSE, worker_task |-> None,
                loops |-> [l \in 1..MaxLoops |-> "none"],
                callers |-> [c \in {"c1", "c2"} |-> None]]
    /\ seen = <<>>
    /\ journal = [op |-> "none", caller |-> ""]

\* TradeConsumer.start
ConsumerStart(c) ==
    /\ IsNone(tasks.callers[c])
    /\ IF tasks.running
       THEN UNCHANGED tasks
       ELSE \E l \in 1..MaxLoops :
               /\ tasks.loops[l] = "none"
               /\ \A k \in 1..(l - 1) : tasks.loops[k] # "none"
               /\ tasks' = [tasks EXCEPT !.running = TRUE,
                                         !.worker_task = Some(l),
                                         !.loops[l] = "active"]
    /\ journal' = [op |-> "start", caller |-> c]
    /\ UNCHANGED <<core_vars, positions, queue, seen>>

\* TradeConsumer.stop up to `await task`: the flag and the task reference
\* are cleared under the lock, then the task is cancelled.
ConsumerStop(c) ==
    /\ IsNone(tasks.callers[c])
    /\ IF ~tasks.running
       THEN UNCHANGED tasks
       ELSE IF IsNone(tasks.worker_task)
       THEN tasks' = [tasks EXCEPT !.running = FALSE]
       ELSE tasks' = [tasks EXCEPT
                !.running = FALSE,
                !.worker_task = None,
                !.loops[Val(tasks.worker_task)] =
                    IF @ = "active" THEN "cancelling" ELSE @,
                !.callers[c] = tasks.worker_task]
    /\ journal' = [op |-> "stop", caller |-> c]
    /\ UNCHANGED <<core_vars, positions, queue, seen>>

\* TradeConsumer.stop: `await task` returns once the cancelled loop is done.
ConsumerStopReturns(c) ==
    /\ ~IsNone(tasks.callers[c])
    /\ tasks.loops[Val(tasks.callers[c])] = "done"
    /\ tasks' = [tasks EXCEPT !.callers[c] = None]
    /\ journal' = [op |-> "stop_returns", caller |-> c]
    /\ UNCHANGED <<core_vars, positions, queue, seen>>

\* _consume_loop leaves its while loop (CancelledError, QueueShutdown or
\* an exception of process) and runs its finally: the flag and the task
\* reference are cleared, whichever loop they belong to.
ConsumeLoopEnds(l) ==
    /\ tasks.loops[l] \in {"active", "cancelling"}
    /\ tasks' = [tasks EXCEPT !.running = FALSE, !.worker_task = None,
                              !.loops[l] = "done"]
    /\ journal' = [op |-> "loop_ends", caller |-> ""]
    /\ UNCHANGED <<core_vars, positions, queue, seen>>

NextConsumer ==
    \/ \E c \in {"c1", "c2"} : ConsumerStart(c)
    \/ \E c \in {"c1", "c2"} : ConsumerStop(c)
    \/ \E c \in {"c1", "c2"} : ConsumerStopReturns(c)
    \/ \E l \in 1..MaxLoops : ConsumeLoopEnds(l)

SpecConsumer == InitConsumer /\ [][NextConsumer]_vars

\* ============================================================ properties
time_lt(t1, t2) == t1[1] < t2[1] \/ (t1[1] = t2[1] /\ t1[2] < t2[2])

open_ids_of_ledger(asset) ==
    {i \in DOMAIN positions :
        positions[i].ledger_id = asset /\ positions[i].status = OPEN}

active_ledgers ==
    {positions[i].ledger_id : i \in {j \in DOMAIN positions : positions[j].status = OPEN}}

\* C1: after the SELL path has selected positions for closing, each of them
\* is CLOSING_PENDING with close_attempts incremented, and none of them has
\* been put into CLOSED by the orchestrator.
C1_SellLeavesClosingPending ==
    (last.op = "sell" /\ Len(last.to_close) > 0) =>
        \A k \in 1..Len(last.to_close) :
            LET p == positions[last.to_close[k]]
            IN /\ p.status = CLOSING_PENDING
               /\ p.close_attempts >= 1

\* C2: under save of a new position, mark_closing_pending, confirm_closed
\* and update_closed_pnl, a stored position keeps its id, a new one starts
\* OPEN, and a status changes only OPEN -> CLOSING_PENDING or
\* CLOSING_PENDING -> CLOSED.
C2_StatusMovesForward ==
    [][/\ Len(positions') >= Len(positions)
       /\ \A i \in DOMAIN positions' :
             IF i \in DOMAIN positions
             THEN \/ positions'[i].status = positions[i].status
                  \/ /\ positions[i].status = OPEN
                     /\ positions'[i].status = CLOSING_PENDING
                  \/ /\ positions[i].status = CLOSING_PENDING
                     /\ positions'[i].status = CLOSED
             ELSE positions'[i].status = OPEN]_vars

\* C2 witness: a position was confirmed CLOSED, and a later
\* mark_closing_pending on it was handed back unchanged.
C2_Witness ==
    /\ last.op = "mark_closing_pending"
    /\ last.reason = "unchanged"
    /\ Val(last.created) \in DOMAIN positions
    /\ positions[Val(last.created)].status = CLOSED
    /\ positions[Val(last.created)].close_attempts >= 1

\* C3: when a SELL selects n positions they are as many as the policy asked
\* for (at most all the open ones), and no position of the ledger that is
\* still OPEN was opened earlier than a selected one.
C3_FifoCloseOrder ==
    (last.op = "sell" /\ last.n > 0) =>
        /\ Len(last.to_close) = Min(last.n, Len(last.open_positions))
        /\ \A k \in 1..Len(last.to_close) :
              /\ positions[last.to_close[k]].ledger_id = last.asset
              /\ positions[last.to_close[k]].status # OPEN
              /\ \A q \in open_ids_of_ledger(last.asset) :
                    ~time_lt(positions[q].opened_at,
                             positions[last.to_close[k]].opened_at)

\* C3 witness: a SELL selected a position that was stored after, but opened
\* before, a position of the same ledger that stays OPEN.
C3_Witness ==
    /\ last.op = "sell"
    /\ Len(last.to_close) = 1
    /\ \E q \in open_ids_of_ledger(last.asset) :
          /\ q < last.to_close[1]
          /\ time_lt(positions[last.to_close[1]].opened_at, positions[q].opened_at)

\* C4: a SELL that leaves post_tracking_shares at 0 while the ledger has an
\* OPEN position (0 < close_total_threshold_pct <= 100) selects every OPEN
\* position of the ledger.
C4_FullUnwinding ==
    (/\ last.op = "sell"
     /\ Len(last.open_positions) >= 1
     /\ Val(ledgers[last.asset]).post_tracking_shares = 0
     /\ settings.close_total_threshold_pct > 0
     /\ settings.close_total_threshold_pct <= 100) =>
        last.to_close = last.open_positions

\* C5: a valid SELL of size s on a ledger with post_tracking p and snapshot
\* b leaves p - s and b when s <= p, and 0 and max(0, b - (s - p)) when s > p.
C5_SellArithmetic ==
    (msg.side = "SELL" /\ ~IsNone(applied.ret)) =>
        LET p == Val(applied.before).post_tracking_shares
            b == Val(applied.before).snapshot_t0_shares
            s == Val(msg.size)
            l == Val(ledgers[strip(msg.asset)])
        IN /\ applied.ret = Some(l)
           /\ s <= p => (l.post_tracking_shares = p - s /\ l.snapshot_t0_shares = b)
           /\ s > p => /\ l.post_tracking_shares = 0
                       /\ l.snapshot_t0_shares = (IF b - (s - p) > 0 THEN b - (s - p) ELSE 0)

\* C5 witness: a SELL larger than a positive post_tracking took part of the
\* snapshot and left some of it.
C5_Witness ==
    /\ msg.side = "SELL"
    /\ ~IsNone(applied.ret)
    /\ Val(applied.before).post_tracking_shares > 0
    /\ Val(msg.size) > Val(applied.before).post_tracking_shares
    /\ Val(applied.ret).snapshot_t0_shares > 0
    /\ Val(applied.ret).snapshot_t0_shares < Val(applied.before).snapshot_t0_shares

\* C6: every stored ledger has post_tracking_shares >= 0 and
\* snapshot_t0_shares >= 0.
C6_SharesNonNegative ==
    \A a \in Assets :
        ~IsNone(ledgers[a]) =>
            /\ Val(ledgers[a]).post_tracking_shares >= 0
            /\ Val(ledgers[a]).snapshot_t0_shares >= 0

\* C6 witness: a SELL exceeded post_tracking and snapshot together, and the
\* snapshot was clamped to 0.
C6_Witness ==
    /\ msg.side = "SELL"
    /\ ~IsNone(applied.ret)
    /\ Val(msg.size) > Val(applied.before).post_tracking_shares
                          + Val(applied.before).snapshot_t0_shares
    /\ Val(applied.before).snapshot_t0_shares > 0
    /\ Val(applied.ret).snapshot_t0_shares = 0

\* C7: a valid BUY of size s get-or-creates the ledger of its asset and adds
\* exactly s to its post_tracking_shares; that ledger's snapshot and close
\* stage reference, and every other ledger, stay as they were.
C7_BuyFrame ==
    [][(pc = "get" /\ is_valid_trade(msg') /\ msg'.side = "BUY") =>
          LET a == strip(msg'.asset)
              old == IF IsNone(ledgers[a]) THEN TrackingLedger_create(a)
                     ELSE Val(ledgers[a])
          IN /\ ~IsNone(ledgers'[a])
             /\ Val(ledgers'[a]).post_tracking_shares
                    = old.post_tracking_shares + Val(msg'.size)
             /\ Val(ledgers'[a]).snapshot_t0_shares = old.snapshot_t0_shares
             /\ Val(ledgers'[a]).close_stage_ref_post_tracking_shares
                    = old.close_stage_ref_post_tracking_shares
             /\ applied'.ret = ledgers'[a]
             /\ \A o \in Assets \ {a} : ledgers'[o] = ledgers[o]]_vars

\* C7 witness: a BUY was applied to a ledger that had shares and a close
\* stage reference, while the other ledger held shares too.
C7_Witness ==
    /\ pc = "evaluate"
    /\ msg.side = "BUY"
    /\ Val(applied.before).post_tracking_shares > 0
    /\ ~IsNone(Val(applied.before).close_stage_ref_post_tracking_shares)
    /\ \E o \in Assets \ {strip(msg.asset)} :
          /\ ~IsNone(ledgers[o])
          /\ Val(ledgers[o]).post_tracking_shares > 0

\* C8: a trade with an empty asset, a side that is neither BUY nor SELL, or
\* a missing or non-positive size makes apply_trade return None and leaves
\* every ledger as it was (none created, none modified).
C8_MalformedSkipped ==
    [][(pc = "get" /\ ~is_valid_trade(msg')) =>
          /\ ledgers' = ledgers
          /\ applied'.ret = None
          /\ pc' = "get"
          /\ positions' = positions]_vars

\* C8 witness: a malformed trade was skipped while the asset it names had a
\* ledger, or it named no asset at all.
C8_Witness ==
    /\ pc = "get"
    /\ msg \in MalformedTrades
    /\ IsNone(applied.ret)
    /\ \E a \in Assets : ~IsNone(ledgers[a]) /\ Val(ledgers[a]).post_tracking_shares > 0
    /\ IsNone(msg.size) \/ Val(msg.size) = 0

\* C9: no ledger has more OPEN positions than max_positions_per_ledger.
C9_MaxPositionsPerLedger ==
    \A a \in Assets :
        Cardinality(open_ids_of_ledger(a)) <= settings.max_positions_per_ledger

\* C9 witness: a BUY was denied because its ledger already has
\* max_positions_per_ledger OPEN positions.
C9_Witness ==
    /\ last.op = "buy"
    /\ ~last.approved
    /\ last.reason = "max_positions_per_ledger"
    /\ Cardinality(open_ids_of_ledger(last.asset)) = settings.max_positions_per_ledger

\* C10: at most max_active_ledgers ledgers have an OPEN position, and a BUY
\* on a ledger that already has an OPEN position is never denied for
\* max_active_ledgers.
C10_MaxActiveLedgers ==
    /\ Cardinality(active_ledgers) <= settings.max_active_ledgers
    /\ (last.op = "buy" /\ Len(last.open_positions) > 0) =>
           last.reason # "max_active_ledgers"

\* C10 witness: with max_active_ledgers ledgers active, a ledger that had
\* an OPEN position opened another one.
C10_Witness ==
    /\ last.op = "buy"
    /\ last.approved
    /\ ~IsNone(last.created)
    /\ Len(last.open_positions) > 0
    /\ last.active_ledgers_count >= settings.max_active_ledgers
    /\ Cardinality(active_ledgers) = settings.max_active_ledgers

C12_PositionsToCloseFormula ==
    last.op = "positions_to_close" =>
        LET c == last.open_positions_count
            ref == last.ledger.close_stage_ref_post_tracking_shares
            pt == last.ledger.post_tracking_shares
            T == settings.close_total_threshold_pct
            n == last.result.positions_to_close
        IN /\ n >= 0 /\ n <= Max(0, c)
           /\ IF c <= 0 \/ IsNone(ref) THEN n = 0
              ELSE IF Val(ref) <= 0 \/ pt >= Val(ref) THEN n = 0
              ELSE T > 0 =>
                     n = Min(c, ((Val(ref) - pt) * 100 * c) \div (Val(ref) * T))

\* C13: with the same open_positions_count, threshold and reference, a lower
\* post_tracking_shares never gives a smaller positions_to_close.
C13_CloseMonotonic ==
    last.op = "positions_to_close" =>
        \A lower \in 0..last.ledger.post_tracking_shares :
            positions_to_close(with_post_tracking(last.ledger, lower),
                               last.open_positions_count,
                               settings).positions_to_close
                >= last.result.positions_to_close

\* C13 witness: the policy asked for some but not all positions, and asks
\* for more at a lower post_tracking_shares.
C13_Witness ==
    /\ last.op = "positions_to_close"
    /\ last.result.positions_to_close >= 1
    /\ \E lower \in 0..last.ledger.post_tracking_shares :
          positions_to_close(with_post_tracking(last.ledger, lower),
                             last.open_positions_count,
                             settings).positions_to_close
              > last.result.positions_to_close

\* events of one kind dispatched for a position by the last handler
events_for(type, position_id) ==
    {i \in DOMAIN last.events :
        /\ last.events[i].type = type
        /\ last.events[i].position_id = Some(position_id)}

\* C14: an approved BUY whose submission succeeds stores exactly one new
\* position, OPEN and of the trade's ledger, and sets the ledger's close
\* stage reference to the current post_tracking_shares if it was unset,
\* leaving a set reference (and everything else of the ledgers) as it was.
C14_BuyOpensPosition ==
    [][(/\ pc = "evaluate"
        /\ msg.side = "BUY"
        /\ last'.approved
        /\ Len(last'.submitted) = 1
        /\ last'.submitted[1].success) =>
          LET a == strip(msg.asset)
              old == Val(ledgers[a])
              new == Val(ledgers'[a])
          IN /\ Len(positions') = Len(positions) + 1
             /\ SubSeq(positions', 1, Len(positions)) = positions
             /\ positions'[Len(positions')].status = OPEN
             /\ positions'[Len(positions')].ledger_id = a
             /\ new.close_stage_ref_post_tracking_shares =
                    (IF IsNone(old.close_stage_ref_post_tracking_shares)
                     THEN Some(old.post_tracking_shares)
                     ELSE old.close_stage_ref_post_tracking_shares)
             /\ new.post_tracking_shares = old.post_tracking_shares
             /\ new.snapshot_t0_shares = old.snapshot_t0_shares
             /\ \A o \in Assets \ {a} : ledgers'[o] = ledgers[o]]_vars

\* C14 witness: a BUY opened a second position on a ledger whose reference
\* was already set, and the reference still differs from the current
\* post_tracking_shares.
C14_Witness ==
    /\ last.op = "buy"
    /\ ~IsNone(last.created)
    /\ Len(last.open_positions) >= 1
    /\ ~IsNone(Val(ledgers[last.asset]).close_stage_ref_post_tracking_shares)
    /\ Val(ledgers[last.asset]).close_stage_ref_post_tracking_shares
           # Some(Val(ledgers[last.asset]).post_tracking_shares)

\* C15: an approved BUY whose submission fails stores no position, leaves
\* the ledgers (the close stage reference included) as they were, and
\* emits exactly one event: failed, order_placement_failed, is_open.
C15_BuyFailureNoPosition ==
    [][(/\ pc = "evaluate"
        /\ msg.side = "BUY"
        /\ last'.approved
        /\ Len(last'.submitted) = 1
        /\ ~last'.submitted[1].success) =>
          /\ positions' = positions
          /\ ledgers' = ledgers
          /\ IsNone(last'.created)
          /\ Len(last'.events) = 1
          /\ last'.events[1].type = "failed"
          /\ last'.events[1].reason = "order_placement_failed"
          /\ last'.events[1].is_open]_vars

\* C15 witness: an approved BUY on a ledger with an OPEN position failed
\* with a response that carries an order id.
C15_Witness ==
    /\ last.op = "buy"
    /\ last.approved
    /\ Len(last.submitted) = 1
    /\ ~last.submitted[1].success
    /\ ~IsNone(last.submitted[1].order_id)
    /\ Len(last.open_positions) >= 1
    /\ Len(last.events) = 1

\* C16: after a SELL for which the close policy asked for n > 0 positions
\* and all of them were processed, the ledger's close stage reference is
\* the ledger's post_tracking_shares as of that SELL.
C16_SellResetsStageRef ==
    (last.op = "sell" /\ last.n > 0) =>
        /\ Len(last.to_close) = last.n
        /\ Len(last.submitted) = last.n
        /\ Val(ledgers[last.asset]).close_stage_ref_post_tracking_shares
               = Some(Val(ledgers[last.asset]).post_tracking_shares)

\* C16 witness: a SELL closed one of two OPEN positions and the next stage
\* starts from the shares still held.
C16_Witness ==
    /\ last.op = "sell"
    /\ last.n = 1
    /\ Len(last.open_positions) = 2
    /\ Val(ledgers[last.asset]).post_tracking_shares > 0
    /\ Val(ledgers[last.asset]).close_stage_ref_post_tracking_shares
           = Some(Val(ledgers[last.asset]).post_tracking_shares)

\* C17: for each position selected on a SELL, an order-placed event is
\* emitted only if its sell submission succeeded; a failed submission gets
\* exactly one failed event (order_placement_failed, not is_open) and no
\* order-placed event.
C17_SellEvents ==
    last.op = "sell" =>
        \A k \in 1..Len(last.to_close) :
            LET id == last.to_close[k]
                placed == events_for("order_placed", id)
                failed == events_for("failed", id)
            IN /\ placed # {} => last.submitted[k].success
               /\ ~last.submitted[k].success =>
                      /\ Cardinality(failed) = 1
                      /\ \A i \in failed :
                            /\ last.events[i].reason = "order_placement_failed"
                            /\ ~last.events[i].is_open
                      /\ placed = {}

\* C19: when the sell submission for a selected position fails, the
\* position stays OPEN and the ledger's close stage reference is not
\* advanced.
C19_FailedSellStaysOpen ==
    [][(/\ pc = "evaluate"
        /\ msg.side = "SELL"
        /\ \E k \in 1..Len(last'.submitted) : ~last'.submitted[k].success) =>
          /\ \A k \in 1..Len(last'.submitted) :
                ~last'.submitted[k].success =>
                    positions'[last'.to_close[k]].status = OPEN
          /\ Val(ledgers'[strip(msg.asset)]).close_stage_ref_post_tracking_shares
                 = Val(ledgers[strip(msg.asset)]).close_stage_ref_post_tracking_shares]_vars

\* C20: a denied BUY, a SELL that finds no OPEN position of the ledger and
\* a SELL for which the close policy returns 0 submit no order, emit no
\* event and leave the position store and the ledgers as they were.
C20_NoOpFrame ==
    [][(/\ pc = "evaluate"
        /\ \/ msg.side = "BUY" /\ ~last'.approved
           \/ msg.side = "SELL" /\ (last'.open_positions = <<>> \/ last'.n = 0)) =>
          /\ positions' = positions
          /\ ledgers' = ledgers
          /\ last'.events = <<>>
          /\ last'.submitted = <<>>
          /\ last'.to_close = <<>>
          /\ IsNone(last'.created)]_vars

\* C20 witness: a SELL found an OPEN position but too little stage progress
\* to close it, and the reference stays above the shares now held.
C20_Witness ==
    /\ last.op = "sell"
    /\ Len(last.open_positions) >= 1
    /\ last.n = 0
    /\ last.reason = "below_per_position"
    /\ ~IsNone(Val(ledgers[last.asset]).close_stage_ref_post_tracking_shares)
    /\ Val(Val(ledgers[last.asset]).close_stage_ref_post_tracking_shares)
           > Val(ledgers[last.asset]).post_tracking_shares

\* C26: once the queue is shut down, every put and put_nowait raises
\* QueueShutdown at once; get and get_nowait still hand out the queued
\* items, in the order they were accepted; on the empty queue every get
\* raises "QueueShutdown", and no caller that was blocked in get or put when
\* shutdown() was called stays blocked.
C26_QueueShutdown ==
    LET call == journal.call
    IN /\ (call.op \in {"put", "put_nowait"} /\ call.was_shutdown)
              => (call.exc = "QueueShutdown" /\ ~call.blocked)
       /\ \A i \in DOMAIN journal.got : journal.got[i] = journal.accepted[i]
       /\ (call.op \in {"get", "get_nowait"} /\ call.was_shutdown)
              => IF call.was_empty
                 THEN call.exc = "QueueShutdown" /\ ~call.blocked
                 ELSE call.exc = "" /\ ~IsNone(call.item)
       /\ queue.is_shutdown
              => \A c \in DOMAIN tasks :
                     tasks[c].pc \notin {"get_blocked", "put_blocked"}

\* a get that was blocked at shutdown() has raised "QueueShutdown", after
\* the items queued before the shutdown were handed out
C26_Witness ==
    /\ journal.call.op = "get"
    /\ journal.call.resumed
    /\ journal.call.exc = "QueueShutdown"
    /\ journal.got # <<>>
    /\ journal.got = journal.accepted

\* C25: a feed trade matches a PendingOrder iff one of its maker sub-order
\* ids equals the pending order_id, or its taker order id equals it, or the
\* pending order carries a transaction hash and the trade's hash equals it;
\* a pending order without a hash never matches by hash.  Checked on every
\* poll: _find_trade answers the first trade of the feed's answer that the
\* rule accepts, and None exactly when the rule accepts none.
C25_TradeMatchesPending ==
    journal.op \in {"matched", "missed", "gave_up", "raised",
                    "parse_trade_error", "position_not_found"} =>
        LET pending == Val(journal.pending)
            trades == IF IsNone(journal.polled) THEN <<>> ELSE Val(journal.polled)
            by_id(t) ==
                \/ \E i \in DOMAIN t.maker_orders : t.maker_orders[i] = pending.order_id
                \/ ~IsNone(t.taker_order_id) /\ Val(t.taker_order_id) = pending.order_id
            by_hash(t) ==
                /\ ~IsNone(pending.transaction_hash)
                /\ ~IsNone(t.transaction_hash)
                /\ Val(t.transaction_hash) = Val(pending.transaction_hash)
        IN /\ IsNone(journal.found) <=>
                 \A i \in DOMAIN trades : ~(by_id(trades[i]) \/ by_hash(trades[i]))
           /\ ~IsNone(journal.found) =>
                 \E i \in DOMAIN trades :
                    /\ trades[i] = Val(journal.found)
                    /\ by_id(trades[i]) \/ by_hash(trades[i])
                    /\ \A j \in 1..(i - 1) : ~(by_id(trades[j]) \/ by_hash(trades[j]))
           /\ (IsNone(pending.transaction_hash) /\ ~IsNone(journal.found)) =>
                 by_id(Val(journal.found))

\* A poll matched a trade by its transaction hash alone.
C25_Witness ==
    /\ journal.op = "matched"
    /\ Val(journal.found).transaction_hash = Val(journal.pending).transaction_hash
    /\ Val(journal.found).taker_order_id # Some(Val(journal.pending).order_id)
    /\ \A i \in DOMAIN Val(journal.found).maker_orders :
          Val(journal.found).maker_orders[i] # Val(journal.pending).order_id

\* C24: on an order-placed event the worker enqueues a PendingOrder iff the
\* event has success, a non-empty order_id and the reconciliation queue is
\* not full; on a full queue nothing is enqueued and exactly one failed
\* event with reason queue_full is emitted; the handler never blocks (no
\* waiter is left on the queue) and touches no position.
C24_OnOrderPlaced ==
    journal.op = "on_order_placed" =>
        LET event == Val(journal.event)
            wanted == event.success /\ event.order_id # ""
            was_full == Len(journal.items_before) >= queue.maxsize
        IN /\ IF wanted /\ ~was_full
              THEN queue.items = Append(journal.items_before, PendingOrder(event))
              ELSE queue.items = journal.items_before
           /\ IF wanted /\ was_full
              THEN /\ Len(journal.events) = 1
                   /\ journal.events[1].type = "failed"
                   /\ journal.events[1].reason = "queue_full"
                   /\ journal.events[1].order_id = event.order_id
                   /\ journal.events[1].position_id = event.position_id
              ELSE journal.events = <<>>
           /\ queue.putters = <<>>
           /\ positions = journal.before

\* A successful event with an order id met a full queue.
C24_Witness ==
    /\ journal.op = "on_order_placed"
    /\ Val(journal.event).success
    /\ Val(journal.event).order_id # ""
    /\ Len(journal.items_before) = queue.maxsize
    /\ journal.events # <<>>

\* C22: on a matched trade for an open PendingOrder the worker sets the
\* position's entry_cost to notional = size * price of the matched trade and
\* adds notional * fee_bps / 10000 to its cumulative fees; status,
\* shares_held, the close-tracking fields and every other position stay as
\* they were, and the confirmation carries the updated position.
C22_OpenReconciliation ==
    (journal.op = "matched" /\ Val(journal.pending).is_open) =>
        LET id == Val(journal.pending).position_id
            trade == Val(journal.found)
            notional == parse_decimal(trade.size).value * parse_decimal(trade.price).value
            b == journal.before[id]
        IN /\ positions =
                 [journal.before EXCEPT
                    ![id] = [b EXCEPT !.entry_cost_usdc = Some(notional),
                                      !.fees = b.fees + (notional * parse_int(trade.fee_rate_bps).value) \div 10000]]
           /\ positions[id].status = b.status
           /\ positions[id].shares_held = b.shares_held
           /\ journal.notified = <<[position |-> positions[id], trade |-> trade,
                                    is_open |-> TRUE]>>
           /\ journal.events = <<>>

\* An open reconciliation added a fee to fees that were already positive.
C22_Witness ==
    /\ journal.op = "matched"
    /\ Val(journal.pending).is_open
    /\ journal.before[Val(journal.pending).position_id].fees > 0
    /\ positions[Val(journal.pending).position_id].fees >
          journal.before[Val(journal.pending).position_id].fees

\* C21: on a matched trade for a close PendingOrder the worker makes the
\* position CLOSED (close_proceeds = notional, fees increased by the close
\* fee, order id and transaction hash recorded) and sends a confirmation iff
\* the position is CLOSING_PENDING at that moment; otherwise (OPEN or already
\* CLOSED) it changes nothing, emits position_update_failed and sends no
\* confirmation.
C21_CloseReconciliation ==
    (journal.op = "matched" /\ ~Val(journal.pending).is_open) =>
        LET id == Val(journal.pending).position_id
            trade == Val(journal.found)
            notional == parse_decimal(trade.size).value * parse_decimal(trade.price).value
            b == journal.before[id]
        IN IF is_closing_pending(b)
           THEN /\ positions[id].status = CLOSED
                /\ positions[id].close_proceeds_usdc = Some(notional)
                /\ positions[id].fees =
                      b.fees + (notional * parse_int(trade.fee_rate_bps).value) \div 10000
                /\ positions[id].close_order_id = Some(Val(journal.pending).order_id)
                /\ positions[id].close_transaction_hash =
                      Or(trade.transaction_hash, b.close_transaction_hash)
                /\ Len(journal.notified) = 1
                /\ journal.notified[1].position = positions[id]
                /\ journal.events = <<>>
           ELSE /\ positions = journal.before
                /\ journal.notified = <<>>
                /\ Len(journal.events) = 1
                /\ journal.events[1].reason = "position_update_failed"

\* C23: for every PendingOrder it dequeues the worker polls the feed at most
\* max_attempts times; when no poll returned a matching trade it emits
\* exactly one failed event with reason trade_not_found, sends no
\* confirmation, leaves the positions unchanged and does not put the order
\* back on the queue; a poll that misses before that emits nothing.
C23_TradeNotFound ==
    /\ tasks.attempts < WorkerMaxAttempts
    /\ journal.attempts <= WorkerMaxAttempts
    /\ journal.op = "missed" =>
          /\ journal.attempts < WorkerMaxAttempts
          /\ journal.events = <<>>
          /\ journal.notified = <<>>
          /\ positions = journal.before
          /\ queue.items = journal.items_before
    /\ journal.op = "gave_up" =>
          /\ journal.attempts = WorkerMaxAttempts
          /\ Len(journal.events) = 1
          /\ journal.events[1].type = "failed"
          /\ journal.events[1].reason = "trade_not_found"
          /\ journal.events[1].order_id = Val(journal.pending).order_id
          /\ journal.events[1].position_id = Some(Val(journal.pending).position_id)
          /\ journal.notified = <<>>
          /\ positions = journal.before
          /\ queue.items = journal.items_before
          /\ tasks.pending = None
          /\ tasks.pc = "get"

\* The worker gave up on an order after max_attempts polls without a match.
C23_Witness ==
    /\ journal.op = "gave_up"
    /\ journal.attempts = WorkerMaxAttempts
    /\ IsNone(journal.found)

C30_Deduplication ==
    /\ \A i \in DOMAIN seen, j \in DOMAIN seen :
          i # j => seen_key(seen[i].wallet, seen[i].trade_key)
                      # seen_key(seen[j].wallet, seen[j].trade_key)
    /\ \A i \in DOMAIN journal.enqueued, j \in DOMAIN journal.enqueued :
          i # j => trade_key(journal.enqueued[i]) # trade_key(journal.enqueued[j])
    /\ \A i \in DOMAIN journal.enqueued :
          /\ trade_key(journal.enqueued[i]) \notin journal.baseline
          /\ seen_contains(seen, Wallet, trade_key(journal.enqueued[i]))

\* The first cycle met a baseline trade again and enqueued a new one, which
\* the second cycle met again.
C30_Witness ==
    /\ Len(journal.cycles) = 2
    /\ \E i \in DOMAIN journal.cycles[1].newest :
          trade_key(journal.cycles[1].newest[i]) \in journal.baseline
    /\ \E i \in DOMAIN journal.cycles[2].newest, j \in DOMAIN journal.cycles[1].enqueued :
          journal.cycles[2].newest[i] = journal.cycles[1].enqueued[j]
    /\ Len(seen) < Cardinality(journal.baseline) + Len(journal.enqueued) + 2

\* C28: a failure while processing one trade does not stop the consumer: the
\* item is marked done and the consumer goes on with the trades enqueued
\* after it; the consume loop ends only on the queue's shutdown or on
\* cancellation.
C28_FailureKeepsConsuming ==
    /\ queue.unfinished_tasks = Len(journal.enqueued) - Len(journal.done)
    /\ tasks["consumer"].pc = "exited" => journal.reason = "queue_shutdown"
    /\ tasks["consumer"].pc = "cancelled" => journal.reason = "cancelled"

\* C27: on application shutdown every trade enqueued before it is processed
\* and marked done before the consumer exits, and the shutdown sequence
\* completes: the sequence is not abandoned, a consumer that has ended has
\* left no enqueued trade behind, and join is never left waiting for items
\* nobody will mark done.
C27_ShutdownDrains ==
    /\ tasks["main"].pc # "aborted"
    /\ (queue.is_shutdown /\ tasks["consumer"].pc \in {"exited", "cancelled"}) =>
          /\ Len(journal.done) = Len(journal.enqueued)
          /\ queue.items = <<>>
    /\ (tasks["main"].pc = "join" /\ tasks["consumer"].pc \in {"exited", "cancelled"}) =>
          queue.unfinished_tasks = 0

\* C31: confirm_closed on a position that is still OPEN, or on an id the
\* store does not hold, returns no update and leaves the store unchanged.
C31_ConfirmClosedRefused ==
    [][(/\ last'.op = "confirm_closed"
        /\ \/ Val(last'.created) \notin DOMAIN positions
           \/ is_open(positions[Val(last'.created)]))
       => (last'.reason = "none" /\ positions' = positions)]_vars

\* confirm_closed was refused for a stored position that is OPEN.
C31_Witness ==
    /\ last.op = "confirm_closed"
    /\ last.reason = "none"
    /\ Val(last.created) \in DOMAIN positions
    /\ is_open(positions[Val(last.created)])

\* C32: mark_closing_pending moves an OPEN position to CLOSING_PENDING with
\* close_attempts + 1; on a CLOSING_PENDING position it keeps the status,
\* adds exactly 1 to close_attempts and records the close order id and
\* transaction hash supplied with the call in place of the earlier ones; on a
\* CLOSED position it changes nothing.  No other position is touched.
C32_MarkClosingPending ==
    [][(last'.op = "mark_closing_pending" /\ Val(last'.created) \in DOMAIN positions)
       => LET id == Val(last'.created)
              b == positions[id]
              a == positions'[id]
          IN IF b.status = CLOSED THEN positions' = positions
             ELSE /\ a.status = CLOSING_PENDING
                  /\ a.close_attempts = b.close_attempts + 1
                  /\ ~IsNone(last'.submitted[1]) => a.close_order_id = last'.submitted[1]
                  /\ ~IsNone(last'.submitted[2]) => a.close_transaction_hash = last'.submitted[2]
                  /\ IsNone(last'.submitted[1]) => a.close_order_id = b.close_order_id
                  /\ IsNone(last'.submitted[2]) => a.close_transaction_hash = b.close_transaction_hash
                  /\ DOMAIN positions' = DOMAIN positions
                  /\ \A j \in DOMAIN positions : j # id => positions'[j] = positions[j]]_vars

\* A close was requested again with another order id: the position is
\* CLOSING_PENDING on its second attempt and carries the new id.
C32_Witness ==
    /\ last.op = "mark_closing_pending"
    /\ Val(last.created) \in DOMAIN positions
    /\ positions[Val(last.created)].status = CLOSING_PENDING
    /\ positions[Val(last.created)].close_attempts = 2
    /\ last.submitted[1] = Some("o2")
    /\ positions[Val(last.created)].close_order_id = Some("o2")
    /\ positions[Val(last.created)].close_transaction_hash = Some("tx1")

\* C33: the PnL computation leaves the position and the store as they were
\* and returns realized = close_proceeds - entry_cost and net = realized -
\* fees exactly when the position is CLOSED with both amounts present; for an
\* OPEN or CLOSING_PENDING position, or with an amount missing, realized and
\* net are both None.
C33_PnL ==
    last.op = "compute_pnl" =>
        LET p == positions[Val(last.created)]
            r == journal.pnl
        IN /\ journal.position = p
           /\ IF p.status = CLOSED /\ ~IsNone(p.entry_cost_usdc)
                   /\ ~IsNone(p.close_proceeds_usdc)
              THEN /\ r.realized_pnl_usdc =
                         Some(Val(p.close_proceeds_usdc) - Val(p.entry_cost_usdc))
                   /\ r.net_pnl_usdc =
                         Some(Val(p.close_proceeds_usdc) - Val(p.entry_cost_usdc) - p.fees)
              ELSE r.realized_pnl_usdc = None /\ r.net_pnl_usdc = None

\* PnL was computed for a CLOSED position with fees, and a net result came out.
C33_Witness ==
    /\ last.op = "compute_pnl"
    /\ positions[Val(last.created)].status = CLOSED
    /\ positions[Val(last.created)].fees > 0
    /\ ~IsNone(journal.pnl.net_pnl_usdc)
    /\ Val(journal.pnl.net_pnl_usdc) # Val(journal.pnl.realized_pnl_usdc)

\* C35: for every interleaving of TradeConsumer.start() and stop() calls,
\* including a start() issued while an earlier stop() still waits for the
\* cancelled loop to finish, at most one consume loop is running and the
\* running flag is true exactly when a consume loop is active.
C35_OneConsumeLoop ==
    /\ Cardinality({l \in 1..MaxLoops : tasks.loops[l] = "active"}) <= 1
    /\ tasks.running <=> (\E l \in 1..MaxLoops : tasks.loops[l] = "active")


\* C38: every PendingOrder the worker dequeues and finishes processing
\* produces exactly one outcome: one confirmation, or one failed event
\* whose reason is trade_not_found, position_not_found, parse_trade_error
\* or position_update_failed, never both and never neither; and task_done
\* is called exactly once for it (while the worker runs, the unfinished
\* count is the orders waiting plus the one in hand).
C38_ExactlyOneOutcome ==
    /\ journal.op \in {"matched", "gave_up", "raised", "parse_trade_error",
                       "position_not_found"} =>
          /\ Len(journal.notified) + Len(journal.events) = 1
          /\ \A i \in DOMAIN journal.events :
                /\ journal.events[i].type = "failed"
                /\ journal.events[i].reason \in
                      {"trade_not_found", "position_not_found",
                       "parse_trade_error", "position_update_failed"}
          /\ tasks.pending = None
          /\ queue.unfinished_tasks = Len(journal.items_before)
    /\ tasks.stop = "running" =>
          queue.unfinished_tasks =
              Len(queue.items) + (IF tasks.pc = "poll" THEN 1 ELSE 0)

\* C34: stop() always terminates: once stop() has unsubscribed, shut the
\* queue down and cancelled the worker task, the join it then awaits can
\* return, that is, no order is left unfinished with nobody to finish it.
C34_StopTerminates ==
    (tasks.stop = "join" /\ tasks.pc = "cancelled") => queue.unfinished_tasks = 0

\* C37: reconciliation is idempotent under duplicate delivery: when the
\* worker matches a trade for an order it has already sent a confirmation
\* for (the same order-placed event delivered again), the positions stay as
\* they are (the fee is not added again) and no second confirmation is sent.
C37_DuplicateDelivery ==
    (/\ journal.op = "matched"
     /\ Val(journal.pending) \in journal.reconciled_before) =>
        /\ positions = journal.before
        /\ journal.notified = <<>>

\* C39: a close order that was submitted successfully (the position has left
\* OPEN), whose order-placed event was accepted into the queue and whose
\* trade was matched within max_attempts polls, leaves the position CLOSED
\* with close_proceeds set; the worker does not come back to a finished
\* order, so what the matching poll leaves is what the position keeps.
C39_CloseEventuallyConfirmed ==
    (/\ journal.op = "matched"
     /\ ~Val(journal.pending).is_open
     /\ journal.attempts <= WorkerMaxAttempts
     /\ ~is_open(journal.before[Val(journal.pending).position_id])) =>
        /\ positions[Val(journal.pending).position_id].status = CLOSED
        /\ ~IsNone(positions[Val(journal.pending).position_id].close_proceeds_usdc)

C40_StoredBeforeDispatch ==
    /\ [](LET placed == SelectSeq(last.events, LAMBDA e : e.type = "order_placed")
          IN /\ Len(last.dispatched) = Len(placed)
             /\ \A i \in DOMAIN placed :
                   /\ last.dispatched[i] # "missing"
                   /\ placed[i].is_open <=> last.dispatched[i] = OPEN
                   /\ Val(placed[i].position_id) \in DOMAIN positions
                   /\ ~placed[i].is_open =>
                         ~is_open(positions[Val(placed[i].position_id)]))
    /\ [][\A id \in DOMAIN positions :
             /\ id \in DOMAIN positions'
             /\ ~is_open(positions[id]) => ~is_open(positions'[id])]_vars

\* One sell closed two positions and sent an order-placed event for each,
\* each after its position was marked.
C40_Witness ==
    /\ last.op = "sell"
    /\ Len(last.to_close) = 2
    /\ Len(last.dispatched) = 2
    /\ \A i \in DOMAIN last.dispatched : last.dispatched[i] = CLOSED
    /\ \A id \in DOMAIN positions : ~is_open(positions[id])

================================================================
